---- MODULE Spec2Model ----
(***************************************************************************)
(* The in-memory knowledge graph of QuantGPT                                *)
(* (src/src/quantgpt/knowledge_graph.py): the KnowledgeGraph store, its     *)
(* three query helpers and build_graph_from_sqlite; and, further down, its  *)
(* collaborators: the chunk pipeline (chunk_consolidation.py,               *)
(* llm/unstructured_text_parser.py), the orchestrator's analyze_pdf_direct  *)
(* (quantgpt_orchestration.py) and the risk report (llm/mapper.py,          *)
(* lir_helper.py).                                                          *)
(*                                                                          *)
(* Python values are modelled as follows.                                   *)
(*   - a dict with insertion order that matters (KnowledgeGraph.nodes) is   *)
(*     a sequence of entries, one per key, in insertion order;              *)
(*   - a dict whose order is never observed (props, relationships,          *)
(*     entity_map, ...) is a function whose DOMAIN is its key set;          *)
(*   - a list is a sequence, a tuple (rel_type, dst_id) is <<rel, dst>>;    *)
(*   - None is the value None below, distinct from every string of the      *)
(*     input sets.                                                          *)
(***************************************************************************)
EXTENDS Integers, Sequences, FiniteSets, TLC

VARIABLES
    nodes,          \* KnowledgeGraph.nodes: entries [id, label, props] in insertion order
    relationships,  \* KnowledgeGraph.relationships: src_id -> sequence of <<rel_type, dst_id>>
    next_id,        \* KnowledgeGraph.next_id
    ret,            \* the last call on the store and what it returned or raised
    add_calls,      \* history: how many times add_node has been called
    rel_calls,      \* history: how many times add_relationship has been called
    rel_log,        \* history: the arguments of each add_relationship call, in call order
    pc,             \* where build_graph_from_sqlite is ("store": no build, a bare store)
    rows,           \* build: the rows of the last fetchall() not yet looped over
    db,             \* build: the tables as the SELECTs read them
    entity_map,     \* build: entity_id -> node id
    vuln_map,       \* build: vuln_id -> node id
    lir_map,        \* build: lir_id -> node id
    built,          \* history: the graph as build_graph_from_sqlite returned it
    reports,        \* build: the records the builder has emitted through logging
    th,             \* per caller thread: where its query on the built graph is
    pdf,            \* one call of parse_pdf_async: its semaphore, its tasks, its result
    combo,          \* one call of combine_outputs_validated: its inputs and its result
    orch,           \* one call of analyze_pdf_direct: its position, results and return
    report          \* the last risk report row written from the loaded graph

vars == <<nodes, relationships, next_id, ret, add_calls, rel_calls, rel_log,
          pc, rows, db, entity_map, vuln_map, lir_map, built, reports, th,
          pdf, combo, orch, report>>

graph_vars == <<nodes, relationships, next_id>>

build_vars == <<pc, rows, db, entity_map, vuln_map, lir_map, built, reports, th>>

call_vars == <<ret, add_calls, rel_calls, rel_log, th>>

\* What the collaborating subsystems (chunk parsing, orchestration, reporting) keep.
aux_vars == <<pdf, combo, orch, report>>

\* What the knowledge graph and its builder keep.
kg_vars == <<graph_vars, call_vars, build_vars>>

(***************************************************************************)
(* Bounds of the model and input sets.                                      *)
(***************************************************************************)
MaxNodes == 2
MaxEdges == 2
\* Rows per table of the database the builder reads.
MaxEntities == 2
MaxSpecializations == 1
MaxVulnerabilities == 2
MaxLirs == 1
MaxAssessments == 2
\* Callers run concurrently on built graphs of at most this many nodes.
MaxSharedNodes == 4

None == "<None>"

RelTypes == {"IS_ENTITY", "HAS_ASSESSMENT", "HAS_VULNERABILITY", "HAS_RISK", "USED_IN"}

\* (label, props) arguments the store's callers pass to add_node.
NodeInputs ==
    { [label |-> "Entity",         props |-> [entity_name |-> "RSA"]],
      [label |-> "Algorithm",      props |-> [algo_name |-> "RSA"]],
      [label |-> "Protocol",       props |-> [protocol_name |-> "TLS"]],
      [label |-> "RiskAssessment", props |-> [assessment_id |-> 100, quant_stride |-> None]],
      [label |-> "Vulnerability",  props |-> [vuln_id |-> 10, vuln_type |-> "Shor"]] }

\* Node ids callers pass to add_relationship: an id may name a node that does
\* not exist (yet).
IdInputs == 1..MaxNodes

\* Keys and values callers pass to find_node_by_prop, names passed to queries.
KeyInputs == {"entity_name", "algo_name"}
NameInputs == {"RSA", "AES", None}

(***************************************************************************)
(* Python's dict and defaultdict.                                           *)
(***************************************************************************)
\* dict.get(key): the value, or None when the key is absent.
DictGet(d, key) == IF key \in DOMAIN d THEN d[key] ELSE None

\* d[key] = value on a dict modelled as a function.
DictSet(d, key, value) ==
    [k \in DOMAIN d \cup {key} |-> IF k = key THEN value ELSE d[k]]

\* defaultdict(list).__getitem__(key): a missing key is inserted with a new
\* empty list (__missing__), then the value is returned.
defaultdict_getitem(d, key) ==
    IF key \in DOMAIN d
       THEN [rels |-> d, value |-> d[key]]
       ELSE [rels |-> DictSet(d, key, <<>>), value |-> <<>>]

(***************************************************************************)
(* KnowledgeGraph.nodes: an insertion-ordered dict keyed by node id.        *)
(***************************************************************************)
NodeIds(ns) == {ns[i].id : i \in DOMAIN ns}

HasNode(ns, id) == id \in NodeIds(ns)

\* self.nodes[id]; only used where HasNode(ns, id).
NodeOf(ns, id) == ns[CHOOSE i \in DOMAIN ns : ns[i].id = id]

\* self.nodes[id] = data: an existing key keeps its place, a new key goes last.
NodesSet(ns, id, data) ==
    LET entry == [id |-> id, label |-> data.label, props |-> data.props]
    IN IF HasNode(ns, id)
          THEN [i \in DOMAIN ns |-> IF ns[i].id = id THEN entry ELSE ns[i]]
          ELSE Append(ns, entry)

(***************************************************************************)
(* KnowledgeGraph: a graph G is [nodes, relationships, next_id].            *)
(***************************************************************************)
\* Mutant: the counter starts at 0.
KnowledgeGraph_initFromZero == [nodes |-> <<>>, relationships |-> <<>>, next_id |-> 0]

\* __init__ (lines 8-11)
KnowledgeGraph_init == [nodes |-> <<>>, relationships |-> <<>>, next_id |-> 1]

NextIdStuck(n) == n

\* self.next_id += 1
NextIdAfter(n) == n + 1

add_node(G, label, props) ==
    LET node_id == G.next_id
    IN [G   |-> [G EXCEPT !.next_id = NextIdAfter(G.next_id),
                          !.nodes = NodesSet(G.nodes, node_id,
                                             [label |-> label, props |-> props])],
        ret |-> node_id]

\* Mutant: an edge already stored for the source is not stored again.
add_relationship_dedup(G, src_id, rel_type, dst_id) ==
    LET r == defaultdict_getitem(G.relationships, src_id)
    IN IF \E p \in DOMAIN r.value : r.value[p] = <<rel_type, dst_id>>
          THEN [G EXCEPT !.relationships = r.rels]
          ELSE [G EXCEPT !.relationships =
                   DictSet(r.rels, src_id, Append(r.value, <<rel_type, dst_id>>))]

\* Mutant: an edge to an id that is no node is refused.
add_relationship_checked(G, src_id, rel_type, dst_id) ==
    LET r == defaultdict_getitem(G.relationships, src_id)
    IN IF ~HasNode(G.nodes, dst_id)
          THEN G
          ELSE [G EXCEPT !.relationships =
                   DictSet(r.rels, src_id, Append(r.value, <<rel_type, dst_id>>))]

\* self.relationships[src_id].append((rel_type, dst_id)) (line 22)
add_relationship(G, src_id, rel_type, dst_id) ==
    LET r == defaultdict_getitem(G.relationships, src_id)
    IN [G EXCEPT !.relationships =
            DictSet(r.rels, src_id, Append(r.value, <<rel_type, dst_id>>))]

\* Mutant: the matches come back newest first.
find_node_by_prop_reversed(ns, key, value) ==
    LET hits == SelectSeq(ns, LAMBDA n : DictGet(n.props, key) = value)
    IN [i \in 1..Len(hits) |-> hits[Len(hits) + 1 - i].id]

\* The list comprehension over self.nodes.items(): ids in insertion order.
find_node_by_prop(ns, key, value) ==
    LET hits == SelectSeq(ns, LAMBDA n : DictGet(n.props, key) = value)
    IN [i \in 1..Len(hits) |-> hits[i].id]

(***************************************************************************)
(* Query helpers.  A query threads the relationships dict through its loops *)
(* because indexing a defaultdict inserts a missing key; st is              *)
(* [rels, out, raised]: the dict so far, the result list so far, and        *)
(* whether a KeyError has been raised (self.nodes is a plain dict).         *)
(***************************************************************************)
QueryStart(G) == [rels |-> G.relationships, out |-> <<>>, raised |-> FALSE]

\* for rel, dst in self.relationships[algo_id]: ... (lines 36-38)
RECURSIVE ProtocolEdges(_, _, _)
ProtocolEdges(ns, edges, st) ==
    IF st.raised \/ edges = <<>> THEN st
    ELSE LET rel == Head(edges)[1]
             dst == Head(edges)[2]
         IN IF rel = "USED_IN"
               THEN IF ~HasNode(ns, dst)
                       THEN [st EXCEPT !.raised = TRUE]
                       ELSE IF NodeOf(ns, dst).label = "Protocol"
                               THEN ProtocolEdges(ns, Tail(edges),
                                        [st EXCEPT !.out = Append(@, NodeOf(ns, dst).props)])
                               ELSE ProtocolEdges(ns, Tail(edges), st)
               ELSE ProtocolEdges(ns, Tail(edges), st)

\* for algo_id in algo_ids: ... (lines 35-38)
RECURSIVE ProtocolAlgos(_, _, _)
ProtocolAlgos(ns, algo_ids, st) ==
    IF st.raised \/ algo_ids = <<>> THEN st
    ELSE LET r == defaultdict_getitem(st.rels, Head(algo_ids))
         IN ProtocolAlgos(ns, Tail(algo_ids),
                ProtocolEdges(ns, r.value, [st EXCEPT !.rels = r.rels]))

get_protocols_using_algorithm(G, algo_name) ==
    ProtocolAlgos(G.nodes, find_node_by_prop(G.nodes, "algo_name", algo_name),
                  QueryStart(G))

\* Mutant: the inner loop collects the destination of every edge of the
\* assessment, not only of its HAS_VULNERABILITY edges.
RECURSIVE VulnInnerNoFilter(_, _, _)
VulnInnerNoFilter(ns, edges2, st) ==
    IF st.raised \/ edges2 = <<>> THEN st
    ELSE LET dst2 == Head(edges2)[2]
         IN IF ~HasNode(ns, dst2)
               THEN [st EXCEPT !.raised = TRUE]
               ELSE VulnInnerNoFilter(ns, Tail(edges2),
                        [st EXCEPT !.out = Append(@, NodeOf(ns, dst2).props)])

\* for rel2, dst2 in self.relationships[dst]: ... (lines 48-50)
RECURSIVE VulnInner(_, _, _)
VulnInner(ns, edges2, st) ==
    IF st.raised \/ edges2 = <<>> THEN st
    ELSE LET rel2 == Head(edges2)[1]
             dst2 == Head(edges2)[2]
         IN IF rel2 = "HAS_VULNERABILITY"
               THEN IF ~HasNode(ns, dst2)
                       THEN [st EXCEPT !.raised = TRUE]
                       ELSE VulnInner(ns, Tail(edges2),
                                [st EXCEPT !.out = Append(@, NodeOf(ns, dst2).props)])
               ELSE VulnInner(ns, Tail(edges2), st)

\* for rel, dst in self.relationships[eid]: ... (lines 45-50)
RECURSIVE VulnEdges(_, _, _)
VulnEdges(ns, edges, st) ==
    IF st.raised \/ edges = <<>> THEN st
    ELSE LET rel == Head(edges)[1]
             dst == Head(edges)[2]
         IN IF rel = "HAS_ASSESSMENT"
               THEN IF ~HasNode(ns, dst)
                       THEN [st EXCEPT !.raised = TRUE]
                       ELSE LET r2 == defaultdict_getitem(st.rels, dst)
                            IN VulnEdges(ns, Tail(edges),
                                   VulnInner(ns, r2.value, [st EXCEPT !.rels = r2.rels]))
               ELSE VulnEdges(ns, Tail(edges), st)

\* Mutant: only the first matching entity is traversed (entity_ids[0]).
VulnEntitiesFirstOnly(ns, entity_ids, st) ==
    IF st.raised \/ entity_ids = <<>> THEN st
    ELSE LET r == defaultdict_getitem(st.rels, Head(entity_ids))
         IN VulnEdges(ns, r.value, [st EXCEPT !.rels = r.rels])

\* for eid in entity_ids: ... (lines 44-50)
RECURSIVE VulnEntities(_, _, _)
VulnEntities(ns, entity_ids, st) ==
    IF st.raised \/ entity_ids = <<>> THEN st
    ELSE LET r == defaultdict_getitem(st.rels, Head(entity_ids))
         IN VulnEntities(ns, Tail(entity_ids),
                VulnEdges(ns, r.value, [st EXCEPT !.rels = r.rels]))

get_vulnerabilities(G, entity_name) ==
    VulnEntities(G.nodes, find_node_by_prop(G.nodes, "entity_name", entity_name),
                 QueryStart(G))

\* for rel, dst in self.relationships[eid]: ... (lines 57-59)
RECURSIVE AssessEdges(_, _, _)
AssessEdges(ns, edges, st) ==
    IF st.raised \/ edges = <<>> THEN st
    ELSE LET rel == Head(edges)[1]
             dst == Head(edges)[2]
         IN IF rel = "HAS_ASSESSMENT"
               THEN IF ~HasNode(ns, dst)
                       THEN [st EXCEPT !.raised = TRUE]
                       ELSE AssessEdges(ns, Tail(edges),
                                [st EXCEPT !.out = Append(@, NodeOf(ns, dst).props)])
               ELSE AssessEdges(ns, Tail(edges), st)

\* for eid in entity_ids: ... (lines 56-59)
RECURSIVE AssessEntities(_, _, _)
AssessEntities(ns, entity_ids, st) ==
    IF st.raised \/ entity_ids = <<>> THEN st
    ELSE LET r == defaultdict_getitem(st.rels, Head(entity_ids))
         IN AssessEntities(ns, Tail(entity_ids),
                AssessEdges(ns, r.value, [st EXCEPT !.rels = r.rels]))

get_risk_assessments(G, entity_name) ==
    AssessEntities(G.nodes, find_node_by_prop(G.nodes, "entity_name", entity_name),
                   QueryStart(G))

\* The query named op, run to its end on G.
RunQuery(G, op, name) ==
    CASE op = "get_vulnerabilities"           -> get_vulnerabilities(G, name)
      [] op = "get_risk_assessments"          -> get_risk_assessments(G, name)
      [] op = "get_protocols_using_algorithm" -> get_protocols_using_algorithm(G, name)

QueryOps == {"get_vulnerabilities", "get_risk_assessments", "get_protocols_using_algorithm"}

\* The property a query looks its name up in (lines 33, 42, 54).
KeyOfQuery(op) == IF op = "get_protocols_using_algorithm" THEN "algo_name" ELSE "entity_name"

(***************************************************************************)
(* The database build_graph_from_sqlite reads.  Every table has an INTEGER  *)
(* PRIMARY KEY (src/src/databases/pq_risk.py), so its keys are distinct and *)
(* a SELECT returns its rows in key order: row i of a table carries the     *)
(* i-th key.  Foreign keys are not enforced and may name no row.            *)
(***************************************************************************)
EntityNames == {"RSA", "AES"}

EntityRefs == {11, 12}
VulnRefs == {21, 22}
LirRefs == {31}

TablesOf(max, Cols(_), Row(_, _)) ==
    UNION { { [i \in 1..n |-> Row(i, c[i])] : c \in [1..n -> Cols(n)] } : n \in 0..max }

EntityTables ==
    LET Cols(n) == EntityNames
        Row(i, c) == [entity_id |-> 10 + i, entity_type |-> "algorithm", entity_name |-> c]
    IN { t \in TablesOf(MaxEntities, Cols, Row) : t = <<>> \/ t[1].entity_name = "RSA" }

AlgorithmTables ==
    LET Cols(n) == EntityRefs
        Row(i, c) == [algorithm_id |-> 40 + i, entity_id |-> c, algo_name |-> "RSA",
                      algo_family |-> "IFP", crypto_type |-> "asymmetric"]
    IN TablesOf(MaxSpecializations, Cols, Row)

ProtocolTables ==
    LET Cols(n) == EntityRefs
        Row(i, c) == [protocol_id |-> 50 + i, entity_id |-> c, protocol_name |-> "TLS",
                      cipher_suites |-> "TLS_RSA"]
    IN TablesOf(MaxSpecializations, Cols, Row)

CertificateTables ==
    LET Cols(n) == EntityRefs
        Row(i, c) == [cert_id |-> 60 + i, entity_id |-> c, cert_name |-> "X509",
                      recommended_crypto_suite |-> "ML-DSA"]
    IN TablesOf(MaxSpecializations, Cols, Row)

VulnerabilityTables ==
    LET Cols(n) == {"Shor"}
        Row(i, c) == [vuln_id |-> 20 + i, vuln_type |-> IF i = 1 THEN c ELSE "Grover"]
    IN TablesOf(MaxVulnerabilities, Cols, Row)

LirTables ==
    LET Cols(n) == {3}
        Row(i, c) == [lir_id |-> 30 + i, likelihood |-> c, impact |-> c + i,
                      overall_risk |-> c + i]
    IN TablesOf(MaxLirs, Cols, Row)

RiskAssessmentTables ==
    LET Cols(n) == EntityRefs \X VulnRefs \X LirRefs
        Row(i, c) == [assessment_id |-> 100 + i, entity_id |-> c[1], vuln_id |-> c[2],
                      lir_id |-> c[3], quant_stride |-> "{}"]
    IN TablesOf(MaxAssessments, Cols, Row)

NoTables == [entities |-> <<>>, algorithms |-> <<>>, protocols |-> <<>>,
             certificates |-> <<>>, vulnerabilities |-> <<>>, lir |-> <<>>,
             risk_assessments |-> <<>>]

(***************************************************************************)
(* build_graph_from_sqlite: the body of each of its seven loops.  B is the  *)
(* builder's locals [G, entity_map, vuln_map, lir_map, reports, raised];    *)
(* reports is what it has emitted through logging, and raised is            *)
(* set when entity_map[eid] raises KeyError, which ends the build.          *)
(***************************************************************************)
\* lines 72-74
EntityRow(B, row) ==
    LET r == add_node(B.G, "Entity",
                 [entity_id |-> row.entity_id, entity_type |-> row.entity_type,
                  entity_name |-> row.entity_name])
    IN [B EXCEPT !.G = r.G, !.entity_map = DictSet(@, row.entity_id, r.ret)]

\* Mutant: the IS_ENTITY edge runs from the entity to the new node.
LinkToEntityReversed(B, G, node_id, eid) ==
    IF eid \in DOMAIN B.entity_map
       THEN [B EXCEPT !.G = add_relationship(G, B.entity_map[eid], "IS_ENTITY", node_id)]
       ELSE [B EXCEPT !.G = G, !.raised = TRUE]

\* Mutant: the edge to the entity is typed USED_IN.
LinkToEntityUsedIn(B, G, node_id, eid) ==
    IF eid \in DOMAIN B.entity_map
       THEN [B EXCEPT !.G = add_relationship(G, node_id, "USED_IN", B.entity_map[eid])]
       ELSE [B EXCEPT !.G = G, !.raised = TRUE]

\* Mutant: an entity_id that is no key of entity_map is skipped, not raised.
LinkToEntitySkipMissing(B, G, node_id, eid) ==
    IF eid \in DOMAIN B.entity_map
       THEN [B EXCEPT !.G = add_relationship(G, node_id, "IS_ENTITY", B.entity_map[eid])]
       ELSE [B EXCEPT !.G = G]

\* G.add_relationship(node_id, "IS_ENTITY", entity_map[eid]) (lines 80, 86, 92)
LinkToEntity(B, G, node_id, eid) ==
    IF eid \in DOMAIN B.entity_map
       THEN [B EXCEPT !.G = add_relationship(G, node_id, "IS_ENTITY", B.entity_map[eid])]
       ELSE [B EXCEPT !.G = G, !.raised = TRUE]

\* lines 78-80
AlgorithmRow(B, row) ==
    LET r == add_node(B.G, "Algorithm",
                 [algorithm_id |-> row.algorithm_id, algo_name |-> row.algo_name,
                  algo_family |-> row.algo_family, crypto_type |-> row.crypto_type])
    IN LinkToEntity(B, r.G, r.ret, row.entity_id)

\* lines 84-86
ProtocolRow(B, row) ==
    LET r == add_node(B.G, "Protocol",
                 [protocol_id |-> row.protocol_id, protocol_name |-> row.protocol_name,
                  cipher_suites |-> row.cipher_suites])
    IN LinkToEntity(B, r.G, r.ret, row.entity_id)

\* lines 90-92
CertificateRow(B, row) ==
    LET r == add_node(B.G, "Certificate",
                 [cert_id |-> row.cert_id, cert_name |-> row.cert_name,
                  recommended_crypto_suite |-> row.recommended_crypto_suite])
    IN LinkToEntity(B, r.G, r.ret, row.entity_id)

\* Mutant: vuln_map is keyed by the node id, not by the row's vuln_id.
VulnerabilityRowKeyedByNode(B, row) ==
    LET r == add_node(B.G, "Vulnerability",
                 [vuln_id |-> row.vuln_id, vuln_type |-> row.vuln_type])
    IN [B EXCEPT !.G = r.G, !.vuln_map = DictSet(@, r.ret, row.vuln_id)]

\* lines 97-99
VulnerabilityRow(B, row) ==
    LET r == add_node(B.G, "Vulnerability",
                 [vuln_id |-> row.vuln_id, vuln_type |-> row.vuln_type])
    IN [B EXCEPT !.G = r.G, !.vuln_map = DictSet(@, row.vuln_id, r.ret)]

\* lines 104-106
LirRow(B, row) ==
    LET r == add_node(B.G, "LIR",
                 [lir_id |-> row.lir_id, likelihood |-> row.likelihood,
                  impact |-> row.impact, overall_risk |-> row.overall_risk])
    IN [B EXCEPT !.G = r.G, !.lir_map = DictSet(@, row.lir_id, r.ret)]

\* Mutant: the HAS_ASSESSMENT edge runs from the assessment to the entity.
LinkAssessmentReversed(G, entity_node, ra_id) ==
    add_relationship(G, ra_id, "HAS_ASSESSMENT", entity_node)

\* Mutant: the HAS_ASSESSMENT edge names the id the next node will get.
LinkAssessmentAhead(G, entity_node, ra_id) ==
    add_relationship(G, entity_node, "HAS_ASSESSMENT", G.next_id)

\* G.add_relationship(entity_map[eid], "HAS_ASSESSMENT", ra_id) (line 112)
LinkAssessment(G, entity_node, ra_id) ==
    add_relationship(G, entity_node, "HAS_ASSESSMENT", ra_id)

\* Mutant: the lir_map test is nested under the vuln_map test.
LinkFindingsNested(B, G, ra_id, vid, lid) ==
    IF vid \in DOMAIN B.vuln_map
       THEN LET G1 == add_relationship(G, ra_id, "HAS_VULNERABILITY", B.vuln_map[vid])
            IN IF lid \in DOMAIN B.lir_map
                  THEN add_relationship(G1, ra_id, "HAS_RISK", B.lir_map[lid])
                  ELSE G1
       ELSE G

\* if vid in vuln_map: ... if lid in lir_map: ... (lines 113-116)
LinkFindings(B, G, ra_id, vid, lid) ==
    LET G1 == IF vid \in DOMAIN B.vuln_map
                 THEN add_relationship(G, ra_id, "HAS_VULNERABILITY", B.vuln_map[vid])
                 ELSE G
    IN IF lid \in DOMAIN B.lir_map
          THEN add_relationship(G1, ra_id, "HAS_RISK", B.lir_map[lid])
          ELSE G1

\* Mutant: a row whose vuln_id or lir_id does not resolve is skipped whole.
RiskAssessmentRowStrict(B, row) ==
    IF row.vuln_id \notin DOMAIN B.vuln_map \/ row.lir_id \notin DOMAIN B.lir_map
       THEN B
       ELSE LET r == add_node(B.G, "RiskAssessment",
                        [assessment_id |-> row.assessment_id,
                         quant_stride |-> row.quant_stride])
            IN IF row.entity_id \in DOMAIN B.entity_map
                  THEN [B EXCEPT !.G = LinkFindings(B,
                                   LinkAssessment(r.G, B.entity_map[row.entity_id], r.ret),
                                   r.ret, row.vuln_id, row.lir_id)]
                  ELSE [B EXCEPT !.G = r.G, !.raised = TRUE]

\* lines 110-116
RiskAssessmentRow(B, row) ==
    LET r == add_node(B.G, "RiskAssessment",
                 [assessment_id |-> row.assessment_id, quant_stride |-> row.quant_stride])
    IN IF row.entity_id \in DOMAIN B.entity_map
          THEN [B EXCEPT !.G = LinkFindings(B,
                                   LinkAssessment(r.G, B.entity_map[row.entity_id], r.ret),
                                   r.ret, row.vuln_id, row.lir_id)]
          ELSE [B EXCEPT !.G = r.G, !.raised = TRUE]

(***************************************************************************)
(* The state: one store, either bare (pc = "store") or the G of a build.    *)
(***************************************************************************)
TheGraph == [nodes |-> nodes, relationships |-> relationships, next_id |-> next_id]

\* Callers of the queries that share one built graph.
Threads == {"t1", "t2"}

Idle == [pc |-> "idle", op |-> "none", name |-> None, ids |-> <<>>, edges |-> <<>>,
         out |-> <<>>, key |-> 0]

NoCall == [op |-> "none", args |-> <<>>, out |-> <<>>, raised |-> FALSE]

InitStore ==
    /\ nodes = KnowledgeGraph_init.nodes
    /\ relationships = KnowledgeGraph_init.relationships
    /\ next_id = KnowledgeGraph_init.next_id
    /\ ret = NoCall
    /\ add_calls = 0
    /\ rel_calls = 0
    /\ rel_log = <<>>
    /\ rows = <<>>
    /\ db = NoTables
    /\ entity_map = <<>>
    /\ vuln_map = <<>>
    /\ lir_map = <<>>
    /\ built = KnowledgeGraph_init
    /\ reports = <<>>
    /\ th = [t \in Threads |-> Idle]
    \* No call of parse_pdf_async, combine_outputs_validated, analyze_pdf_direct
    \* or a report function has been made.
    /\ pdf = [pc |-> "idle", max_concurrency |-> 0, n |-> 0,
              semaphore |-> [value |-> 0, waiters |-> <<>>],
              task |-> <<>>, results |-> <<>>, llm_log |-> <<>>, out |-> <<>>]
    /\ combo = [pc |-> "idle", outputs |-> <<>>, result |-> <<>>, once |-> <<>>,
                twice |-> <<>>]
    /\ orch = [pc |-> "idle", value |-> <<>>, results |-> <<>>, ran |-> <<>>,
               failed |-> <<>>, ret |-> <<>>]
    /\ report = [pc |-> "idle", fn |-> "none", entity |-> None, columns |-> <<>>,
                 raised |-> FALSE]

(***************************************************************************)
(* The store under arbitrary call sequences.                                *)
(***************************************************************************)
Init == InitStore /\ pc = "store"

CallAddNode ==
    /\ pc = "store"
    /\ add_calls < MaxNodes
    /\ \E inp \in NodeInputs :
         LET r == add_node(TheGraph, inp.label, inp.props)
         IN /\ nodes' = r.G.nodes
            /\ relationships' = r.G.relationships
            /\ next_id' = r.G.next_id
            /\ ret' = [op |-> "add_node", args |-> <<inp.label>>,
                       out |-> r.ret, raised |-> FALSE]
    /\ add_calls' = add_calls + 1
    /\ UNCHANGED <<aux_vars, rel_calls, rel_log, build_vars>>

CallAddRelationship ==
    /\ pc = "store"
    /\ rel_calls < MaxEdges
    /\ \E s \in IdInputs, t \in RelTypes, d \in IdInputs :
         LET G2 == add_relationship(TheGraph, s, t, d)
         IN /\ nodes' = G2.nodes
            /\ relationships' = G2.relationships
            /\ next_id' = G2.next_id
            /\ ret' = [op |-> "add_relationship", args |-> <<s, t, d>>,
                       out |-> <<>>, raised |-> FALSE]
            /\ rel_log' = Append(rel_log, <<s, t, d>>)
    /\ rel_calls' = rel_calls + 1
    /\ UNCHANGED <<aux_vars, add_calls, build_vars>>

\* The store can be called once it exists: a bare store, or the G a build returned.
Callable == pc \in {"store", "returned"}

CallFindNodeByProp ==
    /\ Callable
    /\ \E k \in KeyInputs, v \in NameInputs :
         ret' = [op |-> "find_node_by_prop", args |-> <<k, v>>,
                 out |-> find_node_by_prop(nodes, k, v), raised |-> FALSE]
    /\ UNCHANGED <<aux_vars, graph_vars, add_calls, rel_calls, rel_log, build_vars>>

\* A query call: its result, or the KeyError it raised, and the relationships
\* dict as the call left it.
CallQuery(op) ==
    /\ \E name \in IF pc = "store" THEN NameInputs ELSE EntityNames :
         LET st == RunQuery(TheGraph, op, name)
         IN /\ relationships' = st.rels
            /\ ret' = [op |-> op, args |-> <<name>>,
                       out |-> IF st.raised THEN <<>> ELSE st.out,
                       raised |-> st.raised]
    /\ UNCHANGED <<aux_vars, nodes, next_id, add_calls, rel_calls, rel_log, build_vars>>

CallGetVulnerabilities ==
    /\ Callable
    /\ CallQuery("get_vulnerabilities")

CallGetRiskAssessments ==
    /\ Callable
    /\ CallQuery("get_risk_assessments")

CallGetProtocolsUsingAlgorithm ==
    /\ Callable
    /\ CallQuery("get_protocols_using_algorithm")

Next ==
    \/ CallAddNode
    \/ CallAddRelationship
    \/ CallFindNodeByProp
    \/ CallGetVulnerabilities
    \/ CallGetRiskAssessments
    \/ CallGetProtocolsUsingAlgorithm

Spec == Init /\ [][Next]_vars

(***************************************************************************)
(* build_graph_from_sqlite, one step per SELECT and per loop iteration,     *)
(* then calls on the graph it returned.                                     *)
(***************************************************************************)
BuildInit == InitStore /\ pc = "start"

Locals == [G |-> TheGraph, entity_map |-> entity_map, vuln_map |-> vuln_map,
           lir_map |-> lir_map, reports |-> reports, raised |-> FALSE]

\* cur.execute("SELECT ... FROM <table>") and cur.fetchall(), after the loop
\* over the previous table has ended.
Select(table, tables) ==
    /\ rows = <<>>
    /\ \E t \in tables :
         /\ rows' = t
         /\ db' = [db EXCEPT ![table] = t]
    /\ pc' = table
    /\ UNCHANGED <<aux_vars, graph_vars, call_vars, built, reports, entity_map, vuln_map, lir_map>>

\* One iteration of the loop over the rows of table.
Iterate(table, Body(_, _)) ==
    /\ rows # <<>>
    /\ LET B == Body(Locals, Head(rows))
       IN /\ nodes' = B.G.nodes
          /\ relationships' = B.G.relationships
          /\ next_id' = B.G.next_id
          /\ entity_map' = B.entity_map
          /\ vuln_map' = B.vuln_map
          /\ lir_map' = B.lir_map
          /\ reports' = B.reports
          /\ pc' = IF B.raised THEN "raised" ELSE table
    /\ rows' = Tail(rows)
    /\ UNCHANGED <<aux_vars, call_vars, built, db>>

SelectEntities ==
    /\ pc = "start"
    /\ Select("entities", EntityTables)

LoopEntities ==
    /\ pc = "entities"
    /\ Iterate("entities", EntityRow)

SelectAlgorithms ==
    /\ pc = "entities"
    /\ Select("algorithms", AlgorithmTables)

LoopAlgorithms ==
    /\ pc = "algorithms"
    /\ Iterate("algorithms", AlgorithmRow)

SelectProtocols ==
    /\ pc = "algorithms"
    /\ Select("protocols", ProtocolTables)

LoopProtocols ==
    /\ pc = "protocols"
    /\ Iterate("protocols", ProtocolRow)

SelectCertificates ==
    /\ pc = "protocols"
    /\ Select("certificates", CertificateTables)

LoopCertificates ==
    /\ pc = "certificates"
    /\ Iterate("certificates", CertificateRow)

SelectVulnerabilities ==
    /\ pc = "certificates"
    /\ Select("vulnerabilities", VulnerabilityTables)

LoopVulnerabilities ==
    /\ pc = "vulnerabilities"
    /\ Iterate("vulnerabilities", VulnerabilityRow)

SelectLir ==
    /\ pc = "vulnerabilities"
    /\ Select("lir", LirTables)

LoopLir ==
    /\ pc = "lir"
    /\ Iterate("lir", LirRow)

SelectRiskAssessments ==
    /\ pc = "lir"
    /\ Select("risk_assessments", RiskAssessmentTables)

LoopRiskAssessments ==
    /\ pc = "risk_assessments"
    /\ Iterate("risk_assessments", RiskAssessmentRow)

\* conn.close(); return G
ReturnGraph ==
    /\ pc = "risk_assessments"
    /\ rows = <<>>
    /\ pc' = "returned"
    /\ built' = TheGraph
    /\ UNCHANGED <<aux_vars, graph_vars, call_vars, rows, db, reports, entity_map, vuln_map, lir_map>>

Build ==
    \/ SelectEntities
    \/ LoopEntities
    \/ SelectAlgorithms
    \/ LoopAlgorithms
    \/ SelectProtocols
    \/ LoopProtocols
    \/ SelectCertificates
    \/ LoopCertificates
    \/ SelectVulnerabilities
    \/ LoopVulnerabilities
    \/ SelectLir
    \/ LoopLir
    \/ SelectRiskAssessments
    \/ LoopRiskAssessments
    \/ ReturnGraph

BuildNext ==
    \/ Build
    \/ CallGetVulnerabilities
    \/ CallGetRiskAssessments
    \/ CallGetProtocolsUsingAlgorithm

BuildSpec == BuildInit /\ [][BuildNext]_vars

(***************************************************************************)
(* Several callers querying one built graph at once, with no lock.  A       *)
(* caller's query is cut at each access to the shared relationships dict;   *)
(* between two accesses it only reads lists and nodes nobody changes.       *)
(* Indexing the defaultdict with a missing key runs __missing__, which      *)
(* makes the empty list and then stores it: two steps, so that another      *)
(* caller may index the same key in between.                                *)
(*   th[t] = [pc, op, name, ids, edges, out, key]                           *)
(*   pc: idle, loop (top of the loop over ids), edges (in the loop over the *)
(*   edges of an entity, get_vulnerabilities only), missing_outer or        *)
(*   missing_inner (inside __missing__ for key), done, raised.              *)
(***************************************************************************)
\* Mutant: the result list is an attribute of the shared graph object.
ResultListOnGraph(t) == "t1"

\* vulns = [] / assessments = [] / protocols = []: a local of the call, so
\* each caller appends to a list of its own (lines 34, 43, 55).
ResultList(t) == t

ResultOf(t) == th[ResultList(t)].out

\* The loop over the edges of one matched node, for the queries whose loop
\* body only reads (lines 36-38 and 57-59).
ReadEdges(op, edges, out) ==
    LET st0 == [rels |-> relationships, out |-> out, raised |-> FALSE]
    IN IF op = "get_risk_assessments"
          THEN AssessEdges(nodes, edges, st0)
          ELSE ProtocolEdges(nodes, edges, st0)

ThreadCall(t) ==
    /\ pc = "returned"
    /\ th[t].pc = "idle"
    /\ Len(nodes) <= MaxSharedNodes
    /\ \E op \in QueryOps, name \in EntityNames :
         th' = [th EXCEPT ![t] = [pc |-> "loop", op |-> op, name |-> name,
                                  ids |-> find_node_by_prop(nodes, KeyOfQuery(op), name),
                                  edges |-> <<>>, out |-> <<>>, key |-> 0],
                          ![ResultList(t)].out = <<>>]
    /\ UNCHANGED <<aux_vars, graph_vars, ret, add_calls, rel_calls, rel_log, pc, rows, db,
                   entity_map, vuln_map, lir_map, built, reports>>

\* self.relationships[eid] at the top of the loop over the matched ids.
ThreadIndex(t) ==
    /\ th[t].pc = "loop"
    /\ th[t].ids # <<>>
    /\ LET id == Head(th[t].ids)
           me == [th[t] EXCEPT !.ids = Tail(@)]
       IN IF id \notin DOMAIN relationships
             THEN th' = [th EXCEPT ![t] = [me EXCEPT !.pc = "missing_outer", !.key = id]]
             ELSE IF th[t].op = "get_vulnerabilities"
                     THEN th' = [th EXCEPT ![t] = [me EXCEPT !.pc = "edges",
                                                             !.edges = relationships[id]]]
                     ELSE LET st == ReadEdges(th[t].op, relationships[id], ResultOf(t))
                          IN th' = [th EXCEPT
                                      ![t] = [me EXCEPT !.pc = IF st.raised THEN "raised"
                                                                            ELSE "loop"],
                                      ![ResultList(t)].out = st.out]
    /\ UNCHANGED <<aux_vars, graph_vars, ret, add_calls, rel_calls, rel_log, pc, rows, db,
                   entity_map, vuln_map, lir_map, built, reports>>

\* One edge of the matched entity in get_vulnerabilities: ra = self.nodes[dst],
\* then self.relationships[dst] and the loop over the assessment's edges.
ThreadEdge(t) ==
    /\ th[t].pc = "edges"
    /\ th[t].edges # <<>>
    /\ LET rel == Head(th[t].edges)[1]
           dst == Head(th[t].edges)[2]
           me == [th[t] EXCEPT !.edges = Tail(@)]
       IN IF rel # "HAS_ASSESSMENT"
             THEN th' = [th EXCEPT ![t] = me]
             ELSE IF ~HasNode(nodes, dst)
                     THEN th' = [th EXCEPT ![t] = [me EXCEPT !.pc = "raised"]]
                     ELSE IF dst \notin DOMAIN relationships
                             THEN th' = [th EXCEPT ![t] = [me EXCEPT !.pc = "missing_inner",
                                                                     !.key = dst]]
                             ELSE LET st == VulnInner(nodes, relationships[dst],
                                                [rels |-> relationships, out |-> ResultOf(t),
                                                 raised |-> FALSE])
                                  IN th' = [th EXCEPT
                                              ![t] = [me EXCEPT !.pc = IF st.raised
                                                                          THEN "raised"
                                                                          ELSE "edges"],
                                              ![ResultList(t)].out = st.out]
    /\ UNCHANGED <<aux_vars, graph_vars, ret, add_calls, rel_calls, rel_log, pc, rows, db,
                   entity_map, vuln_map, lir_map, built, reports>>

\* The loop over the entity's edges has ended.
ThreadEdgesEnd(t) ==
    /\ th[t].pc = "edges"
    /\ th[t].edges = <<>>
    /\ th' = [th EXCEPT ![t].pc = "loop"]
    /\ UNCHANGED <<aux_vars, graph_vars, ret, add_calls, rel_calls, rel_log, pc, rows, db,
                   entity_map, vuln_map, lir_map, built, reports>>

\* __missing__ stores its new empty list under key, whatever is there by now,
\* and the caller loops over that empty list.
ThreadMissing(t) ==
    /\ th[t].pc \in {"missing_outer", "missing_inner"}
    /\ relationships' = DictSet(relationships, th[t].key, <<>>)
    /\ th' = [th EXCEPT ![t].pc = IF th[t].pc = "missing_outer" THEN "loop" ELSE "edges"]
    /\ UNCHANGED <<aux_vars, nodes, next_id, ret, add_calls, rel_calls, rel_log, pc, rows, db,
                   entity_map, vuln_map, lir_map, built, reports>>

\* return vulns / assessments / protocols
ThreadReturn(t) ==
    /\ th[t].pc = "loop"
    /\ th[t].ids = <<>>
    /\ th' = [th EXCEPT ![t].pc = "done"]
    /\ UNCHANGED <<aux_vars, graph_vars, ret, add_calls, rel_calls, rel_log, pc, rows, db,
                   entity_map, vuln_map, lir_map, built, reports>>

ConcNext ==
    \/ Build
    \/ \E t \in Threads : ThreadCall(t)
    \/ \E t \in Threads : ThreadIndex(t)
    \/ \E t \in Threads : ThreadEdge(t)
    \/ \E t \in Threads : ThreadEdgesEnd(t)
    \/ \E t \in Threads : ThreadMissing(t)
    \/ \E t \in Threads : ThreadReturn(t)

ConcSpec == BuildInit /\ [][ConcNext]_vars

(***************************************************************************)
(* Vocabulary of the properties below: the graph read as a set of nodes and *)
(* edges, independently of how the queries walk it.                         *)
(***************************************************************************)
NodeSet == {nodes[i] : i \in DOMAIN nodes}

PropsOf(id) == NodeOf(nodes, id).props

LabelOf(id) == NodeOf(nodes, id).label

\* The edges stored for a source id, none when the id is no key.
EdgesOf(id) == IF id \in DOMAIN relationships THEN relationships[id] ELSE <<>>

\* Positions of the edges of type rel among the edges stored for id.
EdgePositions(id, rel) == {p \in DOMAIN EdgesOf(id) : EdgesOf(id)[p][1] = rel}

\* Nodes that carry property key with value value.
Carriers(key, value) ==
    {n \in NodeSet : key \in DOMAIN n.props /\ n.props[key] = value}

ItemsOf(seq) == {seq[i] : i \in DOMAIN seq}

NoRepeats(seq) == Cardinality(ItemsOf(seq)) = Len(seq)

RECURSIVE Flatten(_)
Flatten(seqs) == IF seqs = <<>> THEN <<>> ELSE Head(seqs) \o Flatten(Tail(seqs))

\* The elements of a finite set of integers, ascending.
Ascending(S) ==
    [i \in 1..Cardinality(S) |-> CHOOSE x \in S : Cardinality({y \in S : y < x}) = i - 1]

LexLess(a, b) ==
    \E i \in DOMAIN a : a[i] < b[i] /\ \A j \in 1..(i - 1) : a[j] = b[j]

Rank(h, S) == Cardinality({g \in S : LexLess(g, h)}) + 1

\* Entity nodes named name, and the hops a traversal from them takes:
\* <<entity id, position of a HAS_ASSESSMENT edge>>, then
\* <<entity id, that position, position of a HAS_VULNERABILITY edge>>.
EntitiesNamed(name) ==
    {n.id : n \in {m \in Carriers("entity_name", name) : m.label = "Entity"}}

AssessmentHops(name) ==
    UNION { {<<e, p>> : p \in EdgePositions(e, "HAS_ASSESSMENT")} : e \in EntitiesNamed(name) }

AssessmentAt(h) == EdgesOf(h[1])[h[2]][2]

VulnerabilityHops(name) ==
    UNION { {<<h[1], h[2], q>> : q \in EdgePositions(AssessmentAt(h), "HAS_VULNERABILITY")}
            : h \in AssessmentHops(name) }

VulnerabilityAt(h) == EdgesOf(AssessmentAt(h))[h[3]][2]

(***************************************************************************)
(* C1.  Node ids come from one counter that starts at 1, is shared by all   *)
(* labels and is never reused: the k-th add_node returns k, the node ids    *)
(* are exactly 1..next_id-1, and only add_node moves the counter.           *)
(***************************************************************************)
C1_IdsFromOneCounter ==
    /\ NodeIds(nodes) = 1..(next_id - 1)
    /\ Len(nodes) = next_id - 1
    /\ next_id = add_calls + 1
    /\ ret.op = "add_node" => ret.out = add_calls

C1_Witness ==
    /\ ret.op = "add_node"
    /\ ret.out = 2
    /\ nodes[1].label # nodes[2].label
    /\ DOMAIN relationships # {}

(***************************************************************************)
(* C2.  Every query and find_node_by_prop leaves the store as it was: the   *)
(* node map, the relationship map with its set of source keys, and the id   *)
(* counter.                                                                 *)
(***************************************************************************)
C2_QueriesLeaveStoreUnchanged ==
    [][ret'.op \in QueryOps \cup {"find_node_by_prop"}
         => /\ nodes' = nodes
            /\ relationships' = relationships
            /\ DOMAIN relationships' = DOMAIN relationships
            /\ next_id' = next_id]_vars

(***************************************************************************)
(* C3.  Callers that query one built graph at the same time, without        *)
(* synchronization, are safe in every interleaving: no query raises and     *)
(* each returns the list it returns when run alone on that graph.           *)
(***************************************************************************)
C3_ConcurrentQueriesAsAlone ==
    \A t \in Threads :
       /\ th[t].pc # "raised"
       /\ th[t].pc = "done"
            => LET alone == RunQuery(built, th[t].op, th[t].name)
               IN /\ ~alone.raised
                  /\ ResultOf(t) = alone.out

\* t1 has returned a non-empty list after inserting keys into the shared
\* dict, while t2 is inside __missing__ for a key that t1 has inserted since
\* t2 found it missing.
C3_Witness ==
    /\ th["t1"].pc = "done"
    /\ th["t1"].out # <<>>
    /\ th["t2"].pc \in {"missing_outer", "missing_inner"}
    /\ th["t2"].key \in DOMAIN relationships
    /\ th["t2"].key \notin DOMAIN built.relationships

(***************************************************************************)
(* C4.  find_node_by_prop(k, v) returns exactly the ids of the nodes whose  *)
(* property map contains key k with value v, each once.                     *)
(***************************************************************************)
C4_FindReturnsExactlyCarriers ==
    ret.op = "find_node_by_prop"
       => /\ ItemsOf(ret.out) = {n.id : n \in Carriers(ret.args[1], ret.args[2])}
          /\ NoRepeats(ret.out)

(***************************************************************************)
(* C5.  A node whose property map does not contain key k is never returned  *)
(* by find_node_by_prop(k, v), whatever v is (None included), and the       *)
(* lookup never raises.                                                     *)
(***************************************************************************)
C5_AbsentKeyNeverMatches ==
    ret.op = "find_node_by_prop"
       => /\ ~ret.raised
          /\ \A i \in DOMAIN ret.out : ret.args[1] \in DOMAIN PropsOf(ret.out[i])

(***************************************************************************)
(* C6.  On a built graph get_vulnerabilities and get_risk_assessments       *)
(* return the property maps in traversal order: matched entities by node    *)
(* id, then each entity's HAS_ASSESSMENT edges in insertion order (then the *)
(* assessment's HAS_VULNERABILITY edges), one element per hop, whether or   *)
(* not the assessment has a HAS_RISK edge, and with no deduplication.       *)
(***************************************************************************)
InTraversalOrder(out, hops, Target(_), label) ==
    /\ Len(out) = Cardinality(hops)
    /\ \A h \in hops :
         /\ LabelOf(Target(h)) = label
         /\ out[Rank(h, hops)] = PropsOf(Target(h))

C6_TraversalOrder ==
    pc = "returned" =>
       /\ ret.op = "get_vulnerabilities"
            => /\ ~ret.raised
               /\ InTraversalOrder(ret.out, VulnerabilityHops(ret.args[1]),
                                   VulnerabilityAt, "Vulnerability")
       /\ ret.op = "get_risk_assessments"
            => /\ ~ret.raised
               /\ InTraversalOrder(ret.out, AssessmentHops(ret.args[1]),
                                   AssessmentAt, "RiskAssessment")

\* Two entities share the name; the older assessment belongs to the younger
\* entity, no assessment has a HAS_RISK edge, and the vulnerabilities come
\* back in entity order, not in assessment order.
C6_Witness ==
    /\ pc = "returned"
    /\ ret.op = "get_vulnerabilities"
    /\ Cardinality(EntitiesNamed(ret.args[1])) = 2
    /\ db.lir = <<>>
    /\ Len(db.risk_assessments) = 2
    /\ db.risk_assessments[1].entity_id = 12
    /\ db.risk_assessments[2].entity_id = 11
    /\ Len(ret.out) = 2
    /\ ret.out[1].vuln_id = db.risk_assessments[2].vuln_id
    /\ ret.out[2].vuln_id = db.risk_assessments[1].vuln_id
    /\ ret.out[1] # ret.out[2]

(***************************************************************************)
(* C7.  When two or more Entity nodes share entity_name, both queries       *)
(* return the concatenation of what each of those entities contributes; no  *)
(* entity's assessments are dropped.                                        *)
(***************************************************************************)
TargetsOf(id, rel) ==
    LET es == SelectSeq(EdgesOf(id), LAMBDA e : e[1] = rel)
    IN [i \in 1..Len(es) |-> es[i][2]]

AssessmentsOfEntity(e) ==
    LET as == TargetsOf(e, "HAS_ASSESSMENT")
    IN [i \in 1..Len(as) |-> PropsOf(as[i])]

VulnerabilitiesOfEntity(e) ==
    LET as == TargetsOf(e, "HAS_ASSESSMENT")
    IN Flatten([i \in 1..Len(as) |->
                  LET vs == TargetsOf(as[i], "HAS_VULNERABILITY")
                  IN [j \in 1..Len(vs) |-> PropsOf(vs[j])]])

C7_SharedNameAggregates ==
    (pc = "returned" /\ ret.op \in {"get_vulnerabilities", "get_risk_assessments"}
       /\ Cardinality(EntitiesNamed(ret.args[1])) >= 2)
    => LET es == Ascending(EntitiesNamed(ret.args[1]))
       IN /\ ~ret.raised
          /\ ret.op = "get_vulnerabilities"
               => ret.out = Flatten([i \in 1..Len(es) |-> VulnerabilitiesOfEntity(es[i])])
          /\ ret.op = "get_risk_assessments"
               => ret.out = Flatten([i \in 1..Len(es) |-> AssessmentsOfEntity(es[i])])

C7_Witness ==
    /\ pc = "returned"
    /\ ret.op = "get_vulnerabilities"
    /\ Cardinality(EntitiesNamed(ret.args[1])) = 2
    /\ \A e \in EntitiesNamed(ret.args[1]) : Len(VulnerabilitiesOfEntity(e)) = 1
    /\ Len(ret.out) = 2

(***************************************************************************)
(* C8.  A query by a name that matches no node returns the empty list and   *)
(* does not raise, and get_vulnerabilities gives that same result for a     *)
(* name that matches an entity with no vulnerabilities.                     *)
(***************************************************************************)
C8_MissLooksLikeNoVulnerabilities ==
    pc = "returned" =>
       /\ (ret.op \in QueryOps /\ Carriers(KeyOfQuery(ret.op), ret.args[1]) = {})
            => (ret.out = <<>> /\ ~ret.raised)
       /\ \A miss \in EntityNames, zero \in EntityNames :
            (/\ Carriers("entity_name", miss) = {}
             /\ EntitiesNamed(zero) # {}
             /\ VulnerabilityHops(zero) = {})
            => LET a == get_vulnerabilities(TheGraph, miss)
                   b == get_vulnerabilities(TheGraph, zero)
               IN /\ ~a.raised
                  /\ ~b.raised
                  /\ a.out = b.out

\* "AES" names nothing, "RSA" names an entity whose one assessment has a
\* vuln_id that does not resolve; the query for "AES" returned [].
C8_Witness ==
    /\ pc = "returned"
    /\ ret.op = "get_vulnerabilities"
    /\ ret.args = <<"AES">>
    /\ ret.out = <<>>
    /\ Carriers("entity_name", "AES") = {}
    /\ AssessmentHops("RSA") # {}
    /\ VulnerabilityHops("RSA") = {}

(***************************************************************************)
(* C9.  In a returned graph every Algorithm, Protocol and Certificate node  *)
(* has exactly one outgoing edge, of type IS_ENTITY, to an Entity node      *)
(* whose entity_id is the entity_id of the row the node was made from.      *)
(***************************************************************************)
\* The row a specialization node was made from, found by its primary key.
SourceRow(n) ==
    CASE n.label = "Algorithm" ->
           CHOOSE r \in ItemsOf(db.algorithms) : r.algorithm_id = n.props.algorithm_id
      [] n.label = "Protocol" ->
           CHOOSE r \in ItemsOf(db.protocols) : r.protocol_id = n.props.protocol_id
      [] n.label = "Certificate" ->
           CHOOSE r \in ItemsOf(db.certificates) : r.cert_id = n.props.cert_id

C9_SpecializationIsEntity ==
    pc = "returned" =>
       \A n \in NodeSet :
          n.label \in {"Algorithm", "Protocol", "Certificate"}
             => /\ Len(EdgesOf(n.id)) = 1
                /\ EdgesOf(n.id)[1][1] = "IS_ENTITY"
                /\ HasNode(nodes, EdgesOf(n.id)[1][2])
                /\ LabelOf(EdgesOf(n.id)[1][2]) = "Entity"
                /\ PropsOf(EdgesOf(n.id)[1][2]).entity_id = SourceRow(n).entity_id

C9_Witness ==
    /\ pc = "returned"
    /\ \A l \in {"Algorithm", "Protocol", "Certificate"} : \E n \in NodeSet : n.label = l
    /\ \E n \in NodeSet : n.label = "Protocol" /\ SourceRow(n).entity_id = 12
    /\ \E n \in NodeSet : n.label = "Algorithm" /\ SourceRow(n).entity_id = 11

(***************************************************************************)
(* C10.  In a returned graph every RiskAssessment node is the destination   *)
(* of exactly one HAS_ASSESSMENT edge of the whole graph, and that edge     *)
(* leaves an Entity node; an entity may have several such edges.            *)
(***************************************************************************)
\* Every HAS_ASSESSMENT edge that ends in id, as <<source, position>>.
AssessmentEdgesInto(id) ==
    UNION { {<<s, p>> : p \in {q \in EdgePositions(s, "HAS_ASSESSMENT") : EdgesOf(s)[q][2] = id}}
            : s \in DOMAIN relationships }

C10_AssessmentHasOneOwner ==
    pc = "returned" =>
       \A n \in NodeSet :
          n.label = "RiskAssessment"
             => /\ Cardinality(AssessmentEdgesInto(n.id)) = 1
                /\ \A h \in AssessmentEdgesInto(n.id) :
                      HasNode(nodes, h[1]) /\ LabelOf(h[1]) = "Entity"

C10_Witness ==
    /\ pc = "returned"
    /\ \E e \in NodeIds(nodes) :
         /\ LabelOf(e) = "Entity"
         /\ Cardinality(EdgePositions(e, "HAS_ASSESSMENT")) = 2
    /\ Cardinality({n \in NodeSet : n.label = "RiskAssessment"}) = 2

(***************************************************************************)
(* Vocabulary of the properties about the tables a build read.              *)
(***************************************************************************)
\* The values of column col in the rows of a table.
KeysOf(table, col) == {table[i][col] : i \in DOMAIN table}

\* The risk_assessments row an assessment node was made from.
AssessmentRow(n) ==
    CHOOSE r \in ItemsOf(db.risk_assessments) : r.assessment_id = n.props.assessment_id

AssessmentNodes == {n \in NodeSet : n.label = "RiskAssessment"}

(***************************************************************************)
(* C11.  In a returned graph a RiskAssessment node has a HAS_VULNERABILITY  *)
(* edge exactly when its row's vuln_id is a key of vulnerabilities, and a   *)
(* HAS_RISK edge exactly when its row's lir_id is a key of lir; never more  *)
(* than one of either, each ending in the Vulnerability / LIR node of that  *)
(* key; and a row whose entity resolves never raises, whatever its vuln_id  *)
(* and lir_id.                                                              *)
(***************************************************************************)
OptionalEdge(n, rel, label, col, table) ==
    LET r  == AssessmentRow(n)
        ts == TargetsOf(n.id, rel)
    IN /\ Len(ts) = IF r[col] \in KeysOf(table, col) THEN 1 ELSE 0
       /\ \A i \in DOMAIN ts :
            /\ HasNode(nodes, ts[i])
            /\ LabelOf(ts[i]) = label
            /\ PropsOf(ts[i])[col] = r[col]

C11_OptionalEdgesFollowKeys ==
    /\ [](pc = "returned" =>
            \A n \in AssessmentNodes :
               /\ OptionalEdge(n, "HAS_VULNERABILITY", "Vulnerability", "vuln_id",
                               db.vulnerabilities)
               /\ OptionalEdge(n, "HAS_RISK", "LIR", "lir_id", db.lir))
    /\ [][(/\ pc = "risk_assessments"
           /\ rows # <<>>
           /\ Head(rows).entity_id \in KeysOf(db.entities, "entity_id"))
          => pc' = "risk_assessments"]_vars

\* One assessment's vuln_id resolves and the other's does not, while both
\* lir_id resolve.
C11_Witness ==
    /\ pc = "returned"
    /\ Len(db.vulnerabilities) = 1
    /\ Len(db.lir) = 1
    /\ KeysOf(db.risk_assessments, "vuln_id") = {21, 22}
    /\ \E n \in AssessmentNodes :
         /\ TargetsOf(n.id, "HAS_VULNERABILITY") = <<>>
         /\ TargetsOf(n.id, "HAS_RISK") # <<>>

(***************************************************************************)
(* C12.  A risk_assessments row whose lir_id or vuln_id names no row still  *)
(* gives a RiskAssessment node with the row's properties and a              *)
(* HAS_ASSESSMENT edge from its entity; only the edge of the unresolved key *)
(* is missing, and get_risk_assessments for the entity's name returns the   *)
(* assessment's properties.                                                 *)
(***************************************************************************)
Resolves(r, col, table) == r[col] \in KeysOf(table, col)

AssessmentProps(r) == [assessment_id |-> r.assessment_id, quant_stride |-> r.quant_stride]

EntityNodesOf(r) == {e \in NodeSet : e.label = "Entity" /\ e.props.entity_id = r.entity_id}

DanglingRowKept(r) ==
    \E n \in AssessmentNodes, e \in EntityNodesOf(r) :
       /\ n.props = AssessmentProps(r)
       /\ <<"HAS_ASSESSMENT", n.id>> \in ItemsOf(EdgesOf(e.id))
       /\ Len(TargetsOf(n.id, "HAS_RISK")) = IF Resolves(r, "lir_id", db.lir) THEN 1 ELSE 0
       /\ Len(TargetsOf(n.id, "HAS_VULNERABILITY"))
             = IF Resolves(r, "vuln_id", db.vulnerabilities) THEN 1 ELSE 0
       /\ LET q == get_risk_assessments(TheGraph, e.props.entity_name)
          IN ~q.raised /\ n.props \in ItemsOf(q.out)
       /\ (ret.op = "get_risk_assessments" /\ ret.args[1] = e.props.entity_name)
             => (~ret.raised /\ n.props \in ItemsOf(ret.out))

C12_DanglingKeyKeepsAssessment ==
    pc = "returned" =>
       \A r \in ItemsOf(db.risk_assessments) :
          (~Resolves(r, "lir_id", db.lir) \/ ~Resolves(r, "vuln_id", db.vulnerabilities))
             => DanglingRowKept(r)

\* The lir table is empty, an assessment's vuln_id resolves, and
\* get_risk_assessments has returned that assessment.
C12_Witness ==
    /\ pc = "returned"
    /\ db.lir = <<>>
    /\ ret.op = "get_risk_assessments"
    /\ \E r \in ItemsOf(db.risk_assessments) :
         /\ Resolves(r, "vuln_id", db.vulnerabilities)
         /\ AssessmentProps(r) \in ItemsOf(ret.out)

(***************************************************************************)
(* C13.  When a row of algorithms, certificates or protocols names an       *)
(* entity_id that is no key of entities, the build raises at that row, does *)
(* nothing more, and returns no graph: no caller ever holds a graph of such *)
(* tables, and nothing is handed out before the build returns.              *)
(***************************************************************************)
SpecializationTables == {"algorithms", "protocols", "certificates"}

SpecializationRows == UNION {ItemsOf(db[t]) : t \in SpecializationTables}

EntityResolves(r) == Resolves(r, "entity_id", db.entities)

C13_UnresolvedEntityAbortsBuild ==
    /\ [](pc = "returned" => \A r \in SpecializationRows : EntityResolves(r))
    /\ [](pc # "returned" => built = KnowledgeGraph_init /\ ret = NoCall)
    /\ [][(pc \in SpecializationTables /\ rows # <<>> /\ ~EntityResolves(Head(rows)))
             => pc' = "raised"]_vars
    /\ [][pc = "raised" => UNCHANGED vars]_vars

\* The build raised at a protocols row after it had linked an algorithm: the
\* builder's own graph holds nodes and an edge, and no graph was returned.
C13_Witness ==
    /\ pc = "raised"
    /\ \E r \in ItemsOf(db.protocols) : ~EntityResolves(r)
    /\ \A r \in ItemsOf(db.algorithms) : EntityResolves(r)
    /\ db.algorithms # <<>>
    /\ DOMAIN relationships # {}
    /\ built = KnowledgeGraph_init

(***************************************************************************)
(* C14.  The build raises only for an algorithms, certificates or protocols *)
(* row whose entity_id does not resolve; any other malformed row, a         *)
(* risk_assessments row with an unresolved entity_id, vuln_id or lir_id     *)
(* included, gives a returned graph with edges missing and no error.        *)
(***************************************************************************)
C14_OnlySpecializationsRaise ==
    pc = "raised" => \E r \in SpecializationRows : ~EntityResolves(r)

(***************************************************************************)
(* C15.  A build creates its nodes step by step: Entity, then Algorithm /   *)
(* Certificate / Protocol, then Vulnerability, then LIR, then               *)
(* RiskAssessment.  In every state of a build, intermediate or final, every *)
(* edge runs between two nodes that exist, and a node of an earlier step    *)
(* has a smaller id, and an earlier place in the node map, than a node of a *)
(* later step.                                                              *)
(***************************************************************************)
StepOf(label) ==
    CASE label = "Entity" -> 1
      [] label \in {"Algorithm", "Certificate", "Protocol"} -> 2
      [] label = "Vulnerability" -> 3
      [] label = "LIR" -> 4
      [] label = "RiskAssessment" -> 5

NoDanglingEdge ==
    \A s \in DOMAIN relationships :
       /\ HasNode(nodes, s)
       /\ \A p \in DOMAIN relationships[s] : HasNode(nodes, relationships[s][p][2])

C15_StepOrderNoDanglingEdge ==
    /\ NoDanglingEdge
    /\ \A i, j \in DOMAIN nodes :
          StepOf(nodes[i].label) < StepOf(nodes[j].label)
             => (i < j /\ nodes[i].id < nodes[j].id)

\* In the middle of the last loop: every step has made a node, an assessment
\* is linked to its entity and its vulnerability, and a row is still to come.
C15_Witness ==
    /\ pc = "risk_assessments"
    /\ rows # <<>>
    /\ {StepOf(n.label) : n \in NodeSet} = 1..5
    /\ \E n \in AssessmentNodes :
         /\ Len(TargetsOf(n.id, "HAS_VULNERABILITY")) = 1
         /\ AssessmentEdgesInto(n.id) # {}

(***************************************************************************)
(* C16.  For tables that satisfy referential integrity the returned graph   *)
(* answers like the relational join: get_risk_assessments(name) returns one *)
(* {assessment_id, quant_stride} per risk_assessments row whose entity is   *)
(* named name, get_vulnerabilities(name) returns {vuln_id, vuln_type} of    *)
(* the vulnerability each such row references, nothing more and nothing     *)
(* less, and the graph has exactly one node per row of the seven tables.    *)
(***************************************************************************)
ReferentialIntegrity ==
    /\ \A r \in SpecializationRows \cup ItemsOf(db.risk_assessments) : EntityResolves(r)
    /\ \A r \in ItemsOf(db.risk_assessments) :
          /\ Resolves(r, "vuln_id", db.vulnerabilities)
          /\ Resolves(r, "lir_id", db.lir)

\* risk_assessments JOIN entities ON entity_id WHERE entity_name = name
JoinRows(name) ==
    {r \in ItemsOf(db.risk_assessments) :
        \E e \in ItemsOf(db.entities) : e.entity_id = r.entity_id /\ e.entity_name = name}

\* ... JOIN vulnerabilities ON vuln_id, projected on the vulnerability.
VulnerabilityProps(r) ==
    LET v == CHOOSE v \in ItemsOf(db.vulnerabilities) : v.vuln_id = r.vuln_id
    IN [vuln_id |-> v.vuln_id, vuln_type |-> v.vuln_type]

Count(seq, m) == Cardinality({i \in DOMAIN seq : seq[i] = m})

\* out holds Project(r) once per row r of rowset, and nothing else.
SameAsJoin(out, rowset, Project(_)) ==
    /\ Len(out) = Cardinality(rowset)
    /\ \A r \in rowset :
          Count(out, Project(r)) = Cardinality({q \in rowset : Project(q) = Project(r)})

TableNodes ==
    { [table |-> "entities",         label |-> "Entity",         key |-> "entity_id"],
      [table |-> "algorithms",       label |-> "Algorithm",      key |-> "algorithm_id"],
      [table |-> "protocols",        label |-> "Protocol",       key |-> "protocol_id"],
      [table |-> "certificates",     label |-> "Certificate",    key |-> "cert_id"],
      [table |-> "vulnerabilities",  label |-> "Vulnerability",  key |-> "vuln_id"],
      [table |-> "lir",              label |-> "LIR",            key |-> "lir_id"],
      [table |-> "risk_assessments", label |-> "RiskAssessment", key |-> "assessment_id"] }

OneNodePerRow ==
    \A tn \in TableNodes :
       /\ Cardinality({n \in NodeSet : n.label = tn.label}) = Len(db[tn.table])
       /\ \A r \in ItemsOf(db[tn.table]) :
             \E n \in NodeSet : n.label = tn.label /\ n.props[tn.key] = r[tn.key]

C16_GraphAnswersLikeJoin ==
    (pc = "returned" /\ ReferentialIntegrity) =>
       /\ OneNodePerRow
       /\ NodeSet = {n \in NodeSet : \E tn \in TableNodes : n.label = tn.label}
       /\ \A name \in EntityNames :
             LET a == get_risk_assessments(TheGraph, name)
                 v == get_vulnerabilities(TheGraph, name)
             IN /\ ~a.raised /\ SameAsJoin(a.out, JoinRows(name), AssessmentProps)
                /\ ~v.raised /\ SameAsJoin(v.out, JoinRows(name), VulnerabilityProps)
       /\ ret.op = "get_risk_assessments"
             => SameAsJoin(ret.out, JoinRows(ret.args[1]), AssessmentProps)
       /\ ret.op = "get_vulnerabilities"
             => SameAsJoin(ret.out, JoinRows(ret.args[1]), VulnerabilityProps)

\* Every table has a row, both assessments reference the same vulnerability,
\* and get_vulnerabilities returned it twice.
C16_Witness ==
    /\ pc = "returned"
    /\ ReferentialIntegrity
    /\ \A tn \in TableNodes : db[tn.table] # <<>>
    /\ ret.op = "get_vulnerabilities"
    /\ Len(ret.out) = 2
    /\ ret.out[1] = ret.out[2]

(***************************************************************************)
(* C17.  A build from seven empty tables returns a store with no node, no   *)
(* relationship and the counter at its initial value 1, and on it every     *)
(* query returns the empty list for every name and raises nothing.          *)
(***************************************************************************)
C17_EmptyTablesEmptyGraph ==
    (pc = "returned" /\ db = NoTables) =>
       /\ nodes = <<>>
       /\ DOMAIN relationships = {}
       /\ next_id = 1
       /\ built = [nodes |-> <<>>, relationships |-> <<>>, next_id |-> 1]
       /\ \A op \in QueryOps, name \in NameInputs :
             LET q == RunQuery(TheGraph, op, name)
             IN q.out = <<>> /\ ~q.raised
       /\ ret.op \in QueryOps => (ret.out = <<>> /\ ~ret.raised)

C17_Witness ==
    /\ pc = "returned"
    /\ db = NoTables
    /\ ret.op = "get_risk_assessments"
    /\ ret.out = <<>>
    /\ nodes = <<>>

(***************************************************************************)
(* C18.  No step of a build adds an edge of type USED_IN, so on a returned  *)
(* graph get_protocols_using_algorithm returns the empty list for every     *)
(* algorithm name.                                                          *)
(***************************************************************************)
C18_BuilderNeverAddsUsedIn ==
    /\ \A s \in DOMAIN relationships : EdgePositions(s, "USED_IN") = {}
    /\ pc = "returned" =>
          /\ \A name \in NameInputs :
                LET q == get_protocols_using_algorithm(TheGraph, name)
                IN q.out = <<>> /\ ~q.raised
          /\ ret.op = "get_protocols_using_algorithm"
                => (ret.out = <<>> /\ ~ret.raised)

\* The graph holds an algorithm named RSA and a protocol, both linked to the
\* same entity, and the query for RSA returned nothing.
C18_Witness ==
    /\ pc = "returned"
    /\ ret.op = "get_protocols_using_algorithm"
    /\ ret.args = <<"RSA">>
    /\ ret.out = <<>>
    /\ \E a, p \in NodeSet :
         /\ a.label = "Algorithm" /\ a.props.algo_name = "RSA"
         /\ p.label = "Protocol"
         /\ TargetsOf(a.id, "IS_ENTITY") = TargetsOf(p.id, "IS_ENTITY")

(***************************************************************************)
(* C19.  The sequence stored for a source is the (type, destination) of the *)
(* add_relationship calls made with that source, in call order: after N     *)
(* calls with the same (s, t, d), among any other calls, it holds exactly N *)
(* occurrences of (t, d); nothing is deduplicated, reordered or removed.    *)
(***************************************************************************)
\* The (type, destination) of the logged calls whose source is s, in order.
CallsFrom(s) ==
    LET cs == SelectSeq(rel_log, LAMBDA c : c[1] = s)
    IN [i \in 1..Len(cs) |-> <<cs[i][2], cs[i][3]>>]

C19_EdgesAreTheCallsInOrder ==
    pc = "store" =>
       /\ \A s \in IdInputs \cup DOMAIN relationships :
             /\ Len(EdgesOf(s)) = Len(CallsFrom(s))
             /\ \A p \in DOMAIN EdgesOf(s) : EdgesOf(s)[p] = CallsFrom(s)[p]
       /\ \A c \in ItemsOf(rel_log) :
             Count(EdgesOf(c[1]), <<c[2], c[3]>>) = Count(rel_log, c)

\* The same edge was added twice, add_node was called as well, and the
\* source holds the edge twice.
C19_Witness ==
    /\ pc = "store"
    /\ Len(rel_log) = 2
    /\ rel_log[1] = rel_log[2]
    /\ add_calls > 0
    /\ Count(EdgesOf(rel_log[1][1]), <<rel_log[1][2], rel_log[1][3]>>) = 2

(***************************************************************************)
(* C20.  add_relationship(s, t, d) never fails and checks nothing: whether  *)
(* or not s and d are ids of nodes, it appends (t, d) to the sequence of s  *)
(* and leaves the node map, the id counter and the sequences of all other   *)
(* sources as they were.                                                    *)
(***************************************************************************)
\* G2 is G with (t, d) appended to the sequence of s, and nothing else changed.
OnlyAppended(G, G2, s, t, d) ==
    /\ G2.nodes = G.nodes
    /\ G2.next_id = G.next_id
    /\ DOMAIN G2.relationships = DOMAIN G.relationships \cup {s}
    /\ G2.relationships[s]
          = Append(IF s \in DOMAIN G.relationships THEN G.relationships[s] ELSE <<>>,
                   <<t, d>>)
    /\ \A o \in DOMAIN G.relationships \ {s} : G2.relationships[o] = G.relationships[o]

C20_AddRelationshipOnlyAppends ==
    /\ [](\A s \in IdInputs, t \in RelTypes, d \in IdInputs :
             OnlyAppended(TheGraph, add_relationship(TheGraph, s, t, d), s, t, d))
    /\ [][rel_calls' # rel_calls
            => LET c == rel_log'[Len(rel_log')]
               IN /\ ret' = [op |-> "add_relationship", args |-> c,
                             out |-> <<>>, raised |-> FALSE]
                  /\ OnlyAppended(TheGraph,
                                  [nodes |-> nodes', relationships |-> relationships',
                                   next_id |-> next_id'],
                                  c[1], c[2], c[3])]_vars

\* The last call linked two ids of which neither is a node, after an edge
\* had been stored for another source, which is still there.
C20_Witness ==
    /\ ret.op = "add_relationship"
    /\ ~HasNode(nodes, ret.args[1])
    /\ ~HasNode(nodes, ret.args[3])
    /\ <<ret.args[2], ret.args[3]>> \in ItemsOf(EdgesOf(ret.args[1]))
    /\ Len(rel_log) = 2
    /\ rel_log[1][1] # rel_log[2][1]
    /\ Len(EdgesOf(rel_log[1][1])) = 1

(***************************************************************************)
(* C21.  On every store that add_node and add_relationship calls can reach, *)
(* edges to ids that are no node included, each of the three queries        *)
(* returns a list and never raises.                                         *)
(***************************************************************************)
C21_QueriesNeverRaise ==
    (pc = "store" /\ ret.op \in QueryOps) => ~ret.raised

(***************************************************************************)
(* C22.  On every reachable store, each mapping get_vulnerabilities(name)   *)
(* returns is the property map of a Vulnerability node reached from an      *)
(* Entity node with entity_name = name over a HAS_ASSESSMENT edge to a      *)
(* RiskAssessment node and then a HAS_VULNERABILITY edge.                   *)
(***************************************************************************)
TypedVulnerabilityHop(h, props) ==
    /\ LabelOf(AssessmentAt(h)) = "RiskAssessment"
    /\ HasNode(nodes, VulnerabilityAt(h))
    /\ LabelOf(VulnerabilityAt(h)) = "Vulnerability"
    /\ PropsOf(VulnerabilityAt(h)) = props

C22_OnlyTypedPathsContribute ==
    (ret.op = "get_vulnerabilities" /\ ~ret.raised) =>
       \A i \in DOMAIN ret.out :
          \E h \in VulnerabilityHops(ret.args[1]) : TypedVulnerabilityHop(h, ret.out[i])

(***************************************************************************)
(* C23.  get_protocols_using_algorithm(name) returns, for each node with    *)
(* algo_name = name in id order and each of its outgoing edges in insertion *)
(* order, the destination's property map exactly when the edge is of type   *)
(* USED_IN and the destination is labelled Protocol; other edges contribute *)
(* nothing.                                                                 *)
(***************************************************************************)
\* What one edge contributes.
ProtocolOfEdge(e) ==
    IF e[1] = "USED_IN" /\ HasNode(nodes, e[2]) /\ LabelOf(e[2]) = "Protocol"
       THEN <<PropsOf(e[2])>>
       ELSE <<>>

ProtocolsOfNode(id) ==
    Flatten([p \in DOMAIN EdgesOf(id) |-> ProtocolOfEdge(EdgesOf(id)[p])])

ExpectedProtocols(name) ==
    LET as == Ascending({n.id : n \in Carriers("algo_name", name)})
    IN Flatten([i \in DOMAIN as |-> ProtocolsOfNode(as[i])])

C23_ProtocolsByUsedInEdges ==
    (ret.op = "get_protocols_using_algorithm" /\ ~ret.raised)
       => ret.out = ExpectedProtocols(ret.args[1])

(***************************************************************************)
(* C24.  The builder reads the tables in the order entities, algorithms,    *)
(* certificates, protocols, vulnerabilities, lir, risk_assessments, so in a *)
(* returned graph every Algorithm id is smaller than every Certificate id,  *)
(* and every Certificate id smaller than every Protocol id.                 *)
(***************************************************************************)
IdsLabelled(label) == {n.id : n \in {m \in NodeSet : m.label = label}}

C24_CertificatesBeforeProtocols ==
    pc = "returned" =>
       /\ \A a \in IdsLabelled("Algorithm"), c \in IdsLabelled("Certificate") : a < c
       /\ \A c \in IdsLabelled("Certificate"), p \in IdsLabelled("Protocol") : c < p

(***************************************************************************)
(* C25.  Whenever the builder skips a HAS_VULNERABILITY or HAS_RISK edge    *)
(* because a risk_assessments row's vuln_id or lir_id does not resolve, it  *)
(* reports the unresolved reference through logging, one report per skipped *)
(* edge, and does not raise.                                                *)
(***************************************************************************)
\* The edges a build has skipped: <<assessment_id, column>>.
SkippedEdges ==
    {<<r.assessment_id, "vuln_id">> :
        r \in {q \in ItemsOf(db.risk_assessments) : ~Resolves(q, "vuln_id", db.vulnerabilities)}}
    \cup
    {<<r.assessment_id, "lir_id">> :
        r \in {q \in ItemsOf(db.risk_assessments) : ~Resolves(q, "lir_id", db.lir)}}

C25_SkippedEdgesAreLogged ==
    pc = "returned" => Len(reports) = Cardinality(SkippedEdges)

(***************************************************************************)
(* The chunk pipeline (src/src/quantgpt/chunk_consolidation.py and          *)
(* src/src/quantgpt/llm/unstructured_text_parser.py).                       *)
(*                                                                          *)
(* A SecurityPropertiesModel is a function from its seven field names to    *)
(* lists of items; an item is the dict model_dump() gives, a record with    *)
(* the fields name and context (ItemWithContext) or topic and reference     *)
(* (Reference).  An optional value (a result that may be None) is a         *)
(* sequence of length at most one.                                          *)
(***************************************************************************)
\* The keys of combined, in the order of the dict literal (lines 12-20).
Categories == <<"encryption_algorithms", "protocols", "certificates", "key_lifetimes",
                "key_distribution", "authorization", "further_references">>

CategorySet == ItemsOf(Categories)

ItemWithContext(name, context) == [name |-> name, context |-> context]

Reference(topic, reference) == [topic |-> topic, reference |-> reference]

\* Mutant: two items are the same as soon as their names (topics) are.
dedupe_key_name_only(key, item_dict) ==
    IF key = "further_references"
       THEN <<DictGet(item_dict, "topic")>>
       ELSE <<DictGet(item_dict, "name")>>

\* lines 34-37
dedupe_key(key, item_dict) ==
    IF key = "further_references"
       THEN <<DictGet(item_dict, "topic"), DictGet(item_dict, "reference")>>
       ELSE <<DictGet(item_dict, "name"), DictGet(item_dict, "context")>>

\* for item in items (lines 30-41); st is [seen, combined] of one key.
RECURSIVE CombineItems(_, _, _)
CombineItems(key, items, st) ==
    IF items = <<>> THEN st
    ELSE LET item_dict == Head(items)
             k == dedupe_key(key, item_dict)
         IN CombineItems(key, Tail(items),
               IF k \notin st.seen
                  THEN [seen |-> st.seen \cup {k}, combined |-> Append(st.combined, item_dict)]
                  ELSE st)

\* for out in outputs: for key in combined (lines 25-29)
RECURSIVE CombineOutputs(_, _)
CombineOutputs(outputs, st) ==
    IF outputs = <<>> THEN st
    ELSE CombineOutputs(Tail(outputs),
            [key \in CategorySet |-> CombineItems(key, Head(outputs)[key], st[key])])

\* The combined lists pass model_validate (line 45): every item is the dump of
\* a validated item, so the fallback of lines 46-57 is never taken.
combine_outputs_validated(outputs) ==
    LET st == CombineOutputs(outputs,
                 [key \in CategorySet |-> [seen |-> {}, combined |-> <<>>]])
    IN [key \in CategorySet |-> st[key].combined]

(***************************************************************************)
(* parse_pdf_async: one asyncio task per chunk, all of them behind one      *)
(* asyncio.Semaphore(max_concurrency).  The event loop runs one task step   *)
(* at a time; a step runs until the task awaits something that is not       *)
(* ready (a locked semaphore, the LLM request) or returns.                  *)
(*                                                                          *)
(* A task is "new" (created by line 54, not yet run), "waiting" (queued in  *)
(* the semaphore), "woken" (handed a permit by a release, not yet resumed), *)
(* "parsing" (inside parse_chunk_async, its LLM request in flight) or       *)
(* "done".                                                                  *)
(***************************************************************************)
MaxChunks == 3
MaxConcurrency == 2
DefaultMaxConcurrency == 10

ConcurrencyInputs == (1..MaxConcurrency) \cup {DefaultMaxConcurrency}

ModelWith(key, items) == [k \in CategorySet |-> IF k = key THEN items ELSE <<>>]

\* What SecurityPropertiesModel.model_validate_json(raw) can return for a chunk.
ChunkModels ==
    { ModelWith("encryption_algorithms", <<ItemWithContext("RSA", "tls")>>),
      ModelWith("encryption_algorithms",
                <<ItemWithContext("AES", "tls"), ItemWithContext("RSA", "tls")>>) }

\* asyncio.Semaphore(max_concurrency) (line 48)
Semaphore(value) == [value |-> value, waiters |-> <<>>]

\* Semaphore.locked(): no permit is free, or somebody is queued for one.
locked(sem) == sem.value = 0 \/ sem.waiters # <<>>

\* Mutant: entering the semaphore takes no permit.
acquire_without_permit(sem) == sem

\* Entering "async with semaphore" when it is not locked (line 51).
acquire(sem) == [sem EXCEPT !.value = @ - 1]

\* Leaving "async with semaphore" (lines 51-52): the permit goes back, and
\* straight on to the first queued task if there is one.
release(p) ==
    IF p.semaphore.waiters = <<>>
       THEN [p EXCEPT !.semaphore.value = @ + 1]
       ELSE [p EXCEPT !.semaphore.waiters = Tail(@),
                      !.task[Head(p.semaphore.waiters)] = "woken"]

\* parse_chunk_async ended for chunk i (lines 37-41): its result, a model or
\* None, is the task's result, and the semaphore is left.
Finish(p, i, how, result) ==
    release([p EXCEPT !.task[i] = "done", !.results[i] = result,
                      !.llm_log = Append(@, <<i, how, result>>)])

\* Mutant: gather hands the results back in the order the tasks finished.
gather_as_completed(p) == [k \in DOMAIN p.llm_log |-> p.results[p.llm_log[k][1]]]

\* await asyncio.gather(*tasks) (line 55): one result per task, in task order.
gather(p) == p.results

\* lines 57-58
CombineResults(results) ==
    LET kept == SelectSeq(results, LAMBDA r : r # <<>>)
    IN combine_outputs_validated([k \in DOMAIN kept |-> kept[k][1]])

ParseInit == InitStore /\ pc = "parse"

\* lines 44-54: the chunks, the semaphore and one coroutine per chunk.
CallParsePdf ==
    /\ pdf.pc = "idle"
    /\ \E n \in 0..MaxChunks, mc \in ConcurrencyInputs :
         pdf' = [pc |-> "gather", max_concurrency |-> mc, n |-> n,
                 semaphore |-> Semaphore(mc),
                 task |-> [i \in 1..n |-> "new"],
                 results |-> [i \in 1..n |-> <<>>],
                 llm_log |-> <<>>, out |-> <<>>]
    /\ UNCHANGED <<kg_vars, combo, orch, report>>

\* The loop starts the tasks in the order gather created them.
FirstRun(i) ==
    /\ pdf.pc = "gather"
    /\ i \in DOMAIN pdf.task
    /\ pdf.task[i] = "new"
    /\ \A j \in 1..(i - 1) : pdf.task[j] # "new"

\* The task enters the semaphore at once and awaits its LLM request (line 30).
TaskAcquires(i) ==
    /\ FirstRun(i)
    /\ ~locked(pdf.semaphore)
    /\ pdf' = [pdf EXCEPT !.semaphore = acquire(@), !.task[i] = "parsing"]
    /\ UNCHANGED <<kg_vars, combo, orch, report>>

\* The semaphore is locked: the task queues behind the earlier waiters.
TaskWaits(i) ==
    /\ FirstRun(i)
    /\ locked(pdf.semaphore)
    /\ pdf' = [pdf EXCEPT !.semaphore.waiters = Append(@, i), !.task[i] = "waiting"]
    /\ UNCHANGED <<kg_vars, combo, orch, report>>

\* A woken task resumes inside the semaphore and awaits its LLM request.
TaskResumes(i) ==
    /\ pdf.pc = "gather"
    /\ i \in DOMAIN pdf.task
    /\ pdf.task[i] = "woken"
    /\ pdf' = [pdf EXCEPT !.task[i] = "parsing"]
    /\ UNCHANGED <<kg_vars, combo, orch, report>>

\* The prompt or the client raises before any request is sent (lines 24-27):
\* the task enters the semaphore, returns None and leaves it, in one step.
TaskFailsBeforeRequest(i) ==
    /\ pdf.pc = "gather"
    /\ i \in DOMAIN pdf.task
    /\ \/ /\ FirstRun(i)
          /\ ~locked(pdf.semaphore)
          /\ pdf' = Finish([pdf EXCEPT !.semaphore = acquire(@)], i, "no_request", <<>>)
       \/ /\ pdf.task[i] = "woken"
          /\ pdf' = Finish(pdf, i, "no_request", <<>>)
    /\ UNCHANGED <<kg_vars, combo, orch, report>>

\* achat returned and its text validated (lines 30-37).
ChunkParsed(i) ==
    /\ pdf.pc = "gather"
    /\ i \in DOMAIN pdf.task
    /\ pdf.task[i] = "parsing"
    /\ \E m \in ChunkModels : pdf' = Finish(pdf, i, "parsed", <<m>>)
    /\ UNCHANGED <<kg_vars, combo, orch, report>>

\* achat raised, or its text did not validate (lines 39-41).
ChunkFails(i) ==
    /\ pdf.pc = "gather"
    /\ i \in DOMAIN pdf.task
    /\ pdf.task[i] = "parsing"
    /\ \E how \in {"achat_raised", "invalid"} : pdf' = Finish(pdf, i, how, <<>>)
    /\ UNCHANGED <<kg_vars, combo, orch, report>>

\* Every task is done: gather returns and the results are combined (lines 55-58).
GatherReturns ==
    /\ pdf.pc = "gather"
    /\ \A i \in DOMAIN pdf.task : pdf.task[i] = "done"
    /\ pdf' = [pdf EXCEPT !.pc = "returned", !.out = <<CombineResults(gather(pdf))>>]
    /\ UNCHANGED <<kg_vars, combo, orch, report>>

TaskStep ==
    \E i \in 1..MaxChunks :
       TaskAcquires(i) \/ TaskWaits(i) \/ TaskResumes(i) \/ TaskFailsBeforeRequest(i)

LLMStep == \E i \in 1..MaxChunks : ChunkParsed(i) \/ ChunkFails(i)

ParseNext ==
    \/ CallParsePdf
    \/ \E i \in 1..MaxChunks : TaskAcquires(i)
    \/ \E i \in 1..MaxChunks : TaskWaits(i)
    \/ \E i \in 1..MaxChunks : TaskResumes(i)
    \/ \E i \in 1..MaxChunks : TaskFailsBeforeRequest(i)
    \/ \E i \in 1..MaxChunks : ChunkParsed(i)
    \/ \E i \in 1..MaxChunks : ChunkFails(i)
    \/ GatherReturns

ParseSpec == ParseInit /\ [][ParseNext]_vars

\* The event loop runs every task that can take a step, every LLM request
\* ends (it returns or it fails), and gather returns once its tasks are done.
ParseLiveSpec ==
    ParseSpec /\ WF_vars(TaskStep) /\ WF_vars(LLMStep) /\ WF_vars(GatherReturns)

(***************************************************************************)
(* C26.  While parse_pdf_async runs, at most max_concurrency chunks are     *)
(* inside parse_chunk_async; every permit of the semaphore is either free   *)
(* or held by a task that is parsing or was just handed it; a task starts   *)
(* parsing only by taking a permit, and a parse that ends, with a model or  *)
(* with a failure, gives its permit back.                                   *)
(***************************************************************************)
TasksIn(state) == {i \in DOMAIN pdf.task : pdf.task[i] = state}

InFlight == Cardinality(TasksIn("parsing"))

PermitsAccounted ==
    pdf.semaphore.value + InFlight + Cardinality(TasksIn("woken")) = pdf.max_concurrency

\* A permit went back in this step: it is free again or a waiter was handed it.
PermitReturned ==
    \/ pdf'.semaphore.value = pdf.semaphore.value + 1
    \/ \E w \in TasksIn("waiting") : pdf'.task[w] = "woken"

ParseStartsWithPermit ==
    \A i \in DOMAIN pdf.task :
       (pdf.pc = "gather" /\ pdf'.pc = "gather"
          /\ pdf.task[i] # "parsing" /\ pdf'.task[i] = "parsing")
       => \/ pdf.task[i] = "woken"
          \/ pdf.semaphore.value > 0 /\ pdf'.semaphore.value = pdf.semaphore.value - 1

ParseEndGivesPermitBack ==
    \A i \in DOMAIN pdf.task :
       (pdf.pc = "gather" /\ pdf'.pc = "gather"
          /\ pdf.task[i] = "parsing" /\ pdf'.task[i] = "done")
       => PermitReturned

C26_AtMostMaxConcurrencyInFlight ==
    /\ [](pdf.pc = "gather" => (InFlight <= pdf.max_concurrency /\ PermitsAccounted))
    /\ [][ParseStartsWithPermit /\ ParseEndGivesPermitBack]_vars

\* As many parses as permits are in flight, one more chunk waits, and one
\* chunk has already failed and given its permit back.
C26_Witness ==
    /\ pdf.pc = "gather"
    /\ InFlight = pdf.max_concurrency
    /\ TasksIn("waiting") # {}
    /\ \E e \in ItemsOf(pdf.llm_log) : e[2] \in {"achat_raised", "invalid"}

(***************************************************************************)
(* C27.  Once called, parse_pdf_async returns, given that every LLM request *)
(* ends.  When it has returned, every chunk has run to its end exactly      *)
(* once (a failed chunk cancelled nobody), the semaphore has all its        *)
(* permits back and nobody queued, and the value returned is the            *)
(* combination of the models of the chunks that parsed, taken in chunk      *)
(* order whatever order they finished in.                                   *)
(***************************************************************************)
\* The chunks whose parse gave a model, and the model each gave, as logged
\* when the parse ended.
ParsedChunks == {e[1] : e \in {f \in ItemsOf(pdf.llm_log) : f[2] = "parsed"}}

ModelOfChunk(i) == (CHOOSE e \in ItemsOf(pdf.llm_log) : e[1] = i)[3][1]

ModelsInChunkOrder ==
    LET order == Ascending(ParsedChunks)
    IN [k \in DOMAIN order |-> ModelOfChunk(order[k])]

EveryChunkEndedOnce ==
    /\ Len(pdf.llm_log) = pdf.n
    /\ {e[1] : e \in ItemsOf(pdf.llm_log)} = 1..pdf.n

ParseOutcome ==
    pdf.pc = "returned" =>
       /\ EveryChunkEndedOnce
       /\ pdf.semaphore = Semaphore(pdf.max_concurrency)
       /\ pdf.out = <<combine_outputs_validated(ModelsInChunkOrder)>>

C27_ParseCompletesInChunkOrder ==
    /\ (pdf.pc = "gather") ~> (pdf.pc = "returned")
    /\ []ParseOutcome

\* Returned after one chunk failed and two parsed, the later chunk first, with
\* models whose combination depends on their order.
C27_Witness ==
    /\ pdf.pc = "returned"
    /\ \E a, b, c \in DOMAIN pdf.llm_log :
          /\ pdf.llm_log[a][2] \in {"achat_raised", "invalid", "no_request"}
          /\ pdf.llm_log[b][2] = "parsed"
          /\ pdf.llm_log[c][2] = "parsed"
          /\ b < c
          /\ pdf.llm_log[b][1] > pdf.llm_log[c][1]
          /\ pdf.llm_log[b][3] # pdf.llm_log[c][3]

(***************************************************************************)
(* combine_outputs_validated on arbitrary per-chunk outputs: the outputs    *)
(* are built item by item, then combined, and the result is combined again  *)
(* with itself.                                                             *)
(***************************************************************************)
MaxOutputs == 2
MaxItems == 3

\* Items of the ItemWithContext fields: same name with different contexts
\* (context is Optional), and a different name with the same context.
ItemInputs == { ItemWithContext("RSA", "tls"), ItemWithContext("RSA", None),
                ItemWithContext("AES", "tls") }

\* Items of further_references: same topic, different references.
ReferenceInputs == { Reference("TLS", "rfc8446"), Reference("TLS", "rfc5246") }

\* The fields the inputs fill; the other fields stay empty lists.
FilledCategories == {"encryption_algorithms", "protocols", "further_references"}

InputsOf(key) == IF key = "further_references" THEN ReferenceInputs ELSE ItemInputs

EmptyModel == [k \in CategorySet |-> <<>>]

ItemCount(outputs) ==
    Len(Flatten([i \in DOMAIN outputs |->
                    Flatten([c \in DOMAIN Categories |-> outputs[i][Categories[c]]])]))

CombineInit == InitStore /\ pc = "combine"

\* One more per-chunk output, empty so far.
NewOutput ==
    /\ combo.pc \in {"idle", "inputs"}
    /\ Len(combo.outputs) < MaxOutputs
    /\ combo' = [combo EXCEPT !.pc = "inputs", !.outputs = Append(@, EmptyModel)]
    /\ UNCHANGED <<kg_vars, pdf, orch, report>>

\* One more item at the end of a list of the last output.
NewItem ==
    /\ combo.pc = "inputs"
    /\ ItemCount(combo.outputs) < MaxItems
    /\ \E key \in FilledCategories :
         \E item \in InputsOf(key) :
            combo' = [combo EXCEPT !.outputs[Len(combo.outputs)][key] = Append(@, item)]
    /\ UNCHANGED <<kg_vars, pdf, orch, report>>

CallCombine ==
    /\ combo.pc \in {"idle", "inputs"}
    /\ combo' = [combo EXCEPT !.pc = "combined",
                              !.result = <<combine_outputs_validated(combo.outputs)>>]
    /\ UNCHANGED <<kg_vars, pdf, orch, report>>

\* The result combined alone, and combined with a copy of itself.
CallCombineAgain ==
    /\ combo.pc = "combined"
    /\ LET r == combo.result[1]
       IN combo' = [combo EXCEPT !.pc = "recombined",
                                 !.once = <<combine_outputs_validated(<<r>>)>>,
                                 !.twice = <<combine_outputs_validated(<<r, r>>)>>]
    /\ UNCHANGED <<kg_vars, pdf, orch, report>>

CombineNext ==
    \/ NewOutput
    \/ NewItem
    \/ CallCombine
    \/ CallCombineAgain

CombineSpec == CombineInit /\ [][CombineNext]_vars

(***************************************************************************)
(* C28.  In every field, the combined list holds each distinct (name,       *)
(* context) pair, or (topic, reference) pair, that occurs in that field of  *)
(* some input, exactly once and in the order of first occurrence; items     *)
(* that differ only in context are all kept, a pair seen in one field does  *)
(* not suppress it in another, and combining the result again, alone or     *)
(* with itself, gives the result back.                                      *)
(***************************************************************************)
\* All items of one field over the inputs, in input order.
AllItems(key) == Flatten([i \in DOMAIN combo.outputs |-> combo.outputs[i][key]])

FirstIndex(seq, x) == CHOOSE i \in DOMAIN seq : seq[i] = x /\ \A j \in 1..(i - 1) : seq[j] # x

FirstOccurrences(res, all) ==
    /\ NoRepeats(res)
    /\ ItemsOf(res) = ItemsOf(all)
    /\ \A i, j \in DOMAIN res :
          i < j => FirstIndex(all, res[i]) < FirstIndex(all, res[j])

C28_CombineKeepsFirstOccurrences ==
    /\ combo.pc \in {"combined", "recombined"} =>
          \A key \in CategorySet : FirstOccurrences(combo.result[1][key], AllItems(key))
    /\ combo.pc = "recombined" =>
          /\ combo.once = combo.result
          /\ combo.twice = combo.result

\* Combined and recombined inputs in which one field repeats a pair across two
\* outputs and holds the same name with two contexts.
C28_Witness ==
    /\ combo.pc = "recombined"
    /\ Len(combo.outputs) = 2
    /\ Len(AllItems("encryption_algorithms")) > Len(combo.result[1]["encryption_algorithms"])
    /\ \E i, j \in DOMAIN combo.result[1]["encryption_algorithms"] :
          /\ combo.result[1]["encryption_algorithms"][i].name
                = combo.result[1]["encryption_algorithms"][j].name
          /\ combo.result[1]["encryption_algorithms"][i].context
                # combo.result[1]["encryption_algorithms"][j].context

(***************************************************************************)
(* QuantGPTSKOrchestrator.analyze_pdf_direct                                *)
(* (src/src/quantgpt/quantgpt_orchestration.py): seven kernel invocations   *)
(* in a row inside one try.  A plugin function never raises: its own        *)
(* except branch turns a failure into a returned value, json.dumps of       *)
(* {"error": ...} or the text "Error: ...".  What a function returns is     *)
(* modelled by its kind:                                                    *)
(*   "error"       the JSON of a dict with the key error, or "Error: ..."   *)
(*   "components", "text", "mapping", "list", "empty", "path"               *)
(*                 the value of a run without failure ("empty" is the JSON  *)
(*                 of an empty list of assessments)                         *)
(*   "VALID", "INVALID: ..."  what validate_results says.                   *)
(* An outcome is [value, error]: error tells that the except branch of the  *)
(* plugin function ran.                                                     *)
(***************************************************************************)
StepNames == <<"extract_pdf_components", "extract_pdf_text", "enrich_components_with_links",
               "map_to_knowledge_graph", "assess_quantum_risks", "generate_risk_report",
               "validate_results">>

\* The key of results each step fills (lines 586, 595, 604, 614, 623, 635, 644).
ResultKeys == <<"components", "text_length", "enriched_components", "mapping",
                "assessment", "report_path", "validation">>

Returned(value) == [value |-> value, error |-> FALSE]

Reported == [value |-> "error", error |-> TRUE]

\* lines 130-140
extract_pdf_components == {Returned("components"), Reported}

\* lines 146-156
extract_pdf_text == {Returned("text"), Reported}

\* lines 162-173: json.loads, link_explorer, json.dumps of the same dict.
enrich_components_with_links(components_json) == {Returned(components_json), Reported}

\* lines 188-219: one entry per key of the components dict, so the dict
\* {"error": ...} maps to a dict that has the key error again.
map_to_knowledge_graph(components_json) ==
    {Returned(IF components_json = "error" THEN "error" ELSE "mapping"), Reported}

\* lines 225-255: one assessment per entry of the mapping; the dict
\* {"error": ...} has one entry.
assess_quantum_risks(mapping_json) ==
    IF mapping_json = "error"
       THEN {Returned("list"), Reported}
       ELSE {Returned("list"), Returned("empty"), Reported}

\* lines 261-363: a['risk_level'] on the keys of the dict {"error": ...}
\* raises TypeError (line 277), which the except branch reports.
generate_risk_report(assessments_json, mapping_json) ==
    IF assessments_json = "error"
       THEN {Reported}
       ELSE {Returned("path"), Reported}

\* lines 385-398
validate_results(results_json) ==
    {Returned(CASE results_json = "error" -> "INVALID: Error in results"
                [] results_json = "empty" -> "INVALID: Empty results"
                [] OTHER                  -> "VALID")}

\* What a step stores in results: the parsed value, its length for the text.
Stored(k, value) == <<ResultKeys[k], IF k = 2 THEN "length" ELSE value>>

OrchInit == InitStore /\ pc = "orchestrate"

\* results = {} (line 576)
CallAnalyzePdfDirect ==
    /\ orch.pc = "idle"
    /\ orch' = [orch EXCEPT !.pc = StepNames[1], !.value = [k \in DOMAIN StepNames |-> "none"]]
    /\ UNCHANGED <<kg_vars, pdf, combo, report>>

\* Step k: the invocation returns one of outcomes and its value is stored;
\* after the seventh the function returns success (lines 646-649).
Step(k, outcomes) ==
    /\ orch.pc = StepNames[k]
    /\ \E o \in outcomes :
         LET results == Append(orch.results, Stored(k, o.value))
         IN orch' = [orch EXCEPT
                        !.pc = IF k = Len(StepNames) THEN "returned" ELSE StepNames[k + 1],
                        !.value[k] = o.value,
                        !.results = results,
                        !.ran = Append(@, StepNames[k]),
                        !.failed = IF o.error THEN Append(@, StepNames[k]) ELSE @,
                        !.ret = IF k = Len(StepNames)
                                   THEN <<[status |-> "success", results |-> results,
                                           partial_results |-> <<>>]>>
                                   ELSE @]
    /\ UNCHANGED <<kg_vars, pdf, combo, report>>

\* lines 581-586
ExtractComponents == Step(1, extract_pdf_components)

\* lines 590-595
ExtractText == Step(2, extract_pdf_text)

\* lines 599-604
EnrichComponents == Step(3, enrich_components_with_links(orch.value[1]))

\* lines 608-614
MapToKnowledgeGraph == Step(4, map_to_knowledge_graph(orch.value[3]))

\* lines 618-623
AssessQuantumRisks == Step(5, assess_quantum_risks(orch.value[4]))

\* lines 627-635
GenerateRiskReport == Step(6, generate_risk_report(orch.value[5], orch.value[4]))

\* lines 639-649
ValidateResults == Step(7, validate_results(orch.value[5]))

\* kernel.invoke itself raises at the current step: the except branch of
\* lines 651-657 returns what results holds so far.
InvokeRaises ==
    /\ orch.pc \in ItemsOf(StepNames)
    /\ orch' = [orch EXCEPT !.pc = "returned",
                            !.ran = Append(@, orch.pc),
                            !.failed = Append(@, orch.pc),
                            !.ret = <<[status |-> "error", results |-> <<>>,
                                       partial_results |-> orch.results]>>]
    /\ UNCHANGED <<kg_vars, pdf, combo, report>>

OrchNext ==
    \/ CallAnalyzePdfDirect
    \/ ExtractComponents
    \/ ExtractText
    \/ EnrichComponents
    \/ MapToKnowledgeGraph
    \/ AssessQuantumRisks
    \/ GenerateRiskReport
    \/ ValidateResults
    \/ InvokeRaises

OrchSpec == OrchInit /\ [][OrchNext]_vars

(***************************************************************************)
(* C29.  analyze_pdf_direct invokes its seven steps in their order, each    *)
(* after the previous one returned; it returns success exactly when all     *)
(* seven ran and none failed; and when a step fails, its plugin function    *)
(* reporting an error included, no later step runs and the return is an     *)
(* error whose partial_results hold the outputs of the steps before the     *)
(* failing one, and nothing else.                                           *)
(***************************************************************************)
StepIndex(name) == CHOOSE k \in DOMAIN StepNames : StepNames[k] = name

KeysStored(results) == {results[i][1] : i \in DOMAIN results}

C29_StepsInOrderFailFast ==
    orch.pc = "returned" =>
       LET r == orch.ret[1]
       IN /\ orch.ran = SubSeq(StepNames, 1, Len(orch.ran))
          /\ r.status = "success" <=> (Len(orch.ran) = Len(StepNames) /\ orch.failed = <<>>)
          /\ orch.failed # <<>> =>
                LET f == StepIndex(orch.failed[1])
                IN /\ r.status = "error"
                   /\ orch.ran = SubSeq(StepNames, 1, f)
                   /\ KeysStored(r.partial_results) = {ResultKeys[k] : k \in 1..(f - 1)}

(***************************************************************************)
(* The risk report (src/src/quantgpt/llm/mapper.py create_risk_report,      *)
(* src/src/quantgpt/quantgpt_orchestration.py generate_risk_report, and     *)
(* src/src/quantgpt/lir_helper.py get_lir_scores).  The graph is loaded     *)
(* from a database by one call of build_graph_from_sqlite, and the report   *)
(* functions read the LIR scores from the same database file: that is how   *)
(* RiskAssessmentPlugin uses self.db_path, and how main.py, interface.py    *)
(* and app.py run create_risk_report from the repository root.              *)
(*                                                                          *)
(* A Python value whose type the code tests is [type, value].  Of a report  *)
(* row the model keeps the L, I and R columns as the text written.          *)
(***************************************************************************)
MaxReportLirs == 2

\* The lir_id values an assessment row can carry: the last one is never a key.
ReportLirRefs == 31..(31 + MaxReportLirs)

ReportLirTables ==
    LET Cols(n) == {3}
        Row(i, c) == [lir_id |-> 30 + i, likelihood |-> c, impact |-> c + i,
                      overall_risk |-> c + i]
    IN TablesOf(MaxReportLirs, Cols, Row)

ReportAssessmentTables ==
    LET Cols(n) == EntityRefs \X {21} \X ReportLirRefs
        Row(i, c) == [assessment_id |-> 100 + i, entity_id |-> c[1], vuln_id |-> c[2],
                      lir_id |-> c[3], quant_stride |-> "{}"]
    IN TablesOf(MaxAssessments, Cols, Row)

ReportDatabases ==
    { [NoTables EXCEPT !.entities = e, !.lir = l, !.risk_assessments = a] :
         e \in EntityTables, l \in ReportLirTables, a \in ReportAssessmentTables }

\* The names a mapping can give a component: an entity name, or "Unknown".
ReportEntityNames == EntityNames \cup {"Unknown"}

\* The body of the loop over the rows of one table.
RowBody(table, B, row) ==
    CASE table = "entities"         -> EntityRow(B, row)
      [] table = "algorithms"       -> AlgorithmRow(B, row)
      [] table = "protocols"        -> ProtocolRow(B, row)
      [] table = "certificates"     -> CertificateRow(B, row)
      [] table = "vulnerabilities"  -> VulnerabilityRow(B, row)
      [] table = "lir"              -> LirRow(B, row)
      [] table = "risk_assessments" -> RiskAssessmentRow(B, row)

RECURSIVE LoopRows(_, _, _)
LoopRows(table, B, rs) ==
    IF rs = <<>> \/ B.raised THEN B
    ELSE LoopRows(table, RowBody(table, B, Head(rs)), Tail(rs))

\* build_graph_from_sqlite run from its first line to its return or raise.
build_graph_from_sqlite(d) ==
    LET B0 == [G |-> KnowledgeGraph_init, entity_map |-> <<>>, vuln_map |-> <<>>,
               lir_map |-> <<>>, reports |-> <<>>, raised |-> FALSE]
        B1 == LoopRows("entities", B0, d.entities)
        B2 == LoopRows("algorithms", B1, d.algorithms)
        B3 == LoopRows("protocols", B2, d.protocols)
        B4 == LoopRows("certificates", B3, d.certificates)
        B5 == LoopRows("vulnerabilities", B4, d.vulnerabilities)
        B6 == LoopRows("lir", B5, d.lir)
    IN LoopRows("risk_assessments", B6, d.risk_assessments)

PyStr(s) == [type |-> "str", value |-> s]

PyTuple(t) == [type |-> "tuple", value |-> t]

PyInt(n) == [type |-> "int", value |-> n]

Digits == <<"0", "1", "2", "3", "4", "5", "6", "7", "8", "9">>

\* str() of a non-negative int.
RECURSIVE str_int(_)
str_int(n) == IF n < 10 THEN Digits[n + 1] ELSE str_int(n \div 10) \o Digits[(n % 10) + 1]

\* What an f-string writes for a value (mapper.py line 117).
Format(v) == IF v.type = "int" THEN str_int(v.value) ELSE v.value

\* lir_helper.py lines 13-28: fetchone() of each SELECT; "N/A" when the
\* assessment or its lir row is missing, else the row as a tuple.
get_lir_scores(assessment_id, d) ==
    LET found == SelectSeq(d.risk_assessments, LAMBDA r : r.assessment_id = assessment_id)
    IN IF found = <<>> THEN PyStr("N/A")
       ELSE LET lir_id == found[1].lir_id
                row == SelectSeq(d.lir, LAMBDA l : l.lir_id = lir_id)
            IN IF row = <<>> THEN PyStr("N/A")
               ELSE PyTuple(<<PyInt(row[1].likelihood), PyInt(row[1].impact),
                              PyInt(row[1].overall_risk)>>)

\* Mutant: an assessment without scores puts the placeholder back.
UpdateScoresOrReset(cols, lir_scores) ==
    IF lir_scores.type = "tuple" THEN lir_scores.value
    ELSE <<PyStr("N/A"), PyStr("N/A"), PyStr("N/A")>>

\* mapper.py lines 102-103
UpdateScores(cols, lir_scores) ==
    IF lir_scores.type = "tuple" THEN lir_scores.value ELSE cols

\* mapper.py lines 98-103: for r in risks
RECURSIVE LirLoop(_, _, _)
LirLoop(risks, d, cols) ==
    IF risks = <<>> THEN cols
    ELSE LirLoop(Tail(risks), d,
            UpdateScores(cols, get_lir_scores(DictGet(Head(risks), "assessment_id"), d)))

\* quantgpt_orchestration.py lines 329-338: a falsy assessment_id is skipped,
\* and only a tuple of length three is unpacked.
RECURSIVE LirLoopChecked(_, _, _)
LirLoopChecked(risks, d, cols) ==
    IF risks = <<>> THEN cols
    ELSE LET assessment_id == DictGet(Head(risks), "assessment_id")
             lir_scores == get_lir_scores(assessment_id, d)
         IN LirLoopChecked(Tail(risks), d,
               IF assessment_id # 0 /\ lir_scores.type = "tuple" /\ Len(lir_scores.value) = 3
                  THEN lir_scores.value
                  ELSE cols)

\* The two queries of a report row (mapper.py lines 57-58), the second on the
\* relationships dict as the first left it.
RowQueries(G, entity) ==
    LET v == get_vulnerabilities(G, entity)
        r == get_risk_assessments([G EXCEPT !.relationships = v.rels], entity)
    IN [rels |-> IF v.raised THEN v.rels ELSE r.rels,
        raised |-> v.raised \/ r.raised,
        risks |-> IF v.raised \/ r.raised THEN <<>> ELSE r.out]

Columns(cols) == [i \in DOMAIN cols |-> Format(cols[i])]

\* mapper.py lines 56-117 for one entry of the mapping.
create_risk_report(entity, G, d) ==
    LET q == RowQueries(G, entity)
        start == <<PyStr("N/A"), PyStr("N/A"), PyStr("N/A")>>
    IN [rels |-> q.rels, raised |-> q.raised,
        columns |-> IF q.raised THEN <<>> ELSE Columns(LirLoop(q.risks, d, start))]

\* quantgpt_orchestration.py lines 292-353 for one entry of the mapping; an
\* exception ends in the except branch of line 361, which returns "Error: ...".
\* The placeholder of line 327 is a dash outside ASCII, written "-" here.
generate_risk_report_row(entity, G, d) ==
    LET q == RowQueries(G, entity)
        start == <<PyStr("-"), PyStr("-"), PyStr("-")>>
    IN [rels |-> q.rels, raised |-> FALSE,
        columns |-> IF q.raised THEN <<>> ELSE Columns(LirLoopChecked(q.risks, d, start))]

ReportInit == InitStore /\ pc = "report"

\* G = build_graph_from_sqlite(db_path) (main.py line 37, and line 182 of
\* quantgpt_orchestration.py).
LoadGraph ==
    /\ pc = "report"
    /\ \E d \in ReportDatabases :
         LET B == build_graph_from_sqlite(d)
         IN /\ db' = d
            /\ nodes' = B.G.nodes
            /\ relationships' = B.G.relationships
            /\ next_id' = B.G.next_id
            /\ entity_map' = B.entity_map
            /\ vuln_map' = B.vuln_map
            /\ lir_map' = B.lir_map
            /\ built' = IF B.raised THEN built ELSE B.G
            /\ pc' = IF B.raised THEN "raised" ELSE "loaded"
    /\ UNCHANGED <<aux_vars, call_vars, rows, reports>>

WriteRow(fn, entity, r) ==
    /\ relationships' = r.rels
    /\ report' = [pc |-> "written", fn |-> fn, entity |-> entity, columns |-> r.columns,
                  raised |-> r.raised]
    /\ UNCHANGED <<nodes, next_id, call_vars, pc, rows, db, entity_map, vuln_map, lir_map,
                   built, reports, pdf, combo, orch>>

CallCreateRiskReport ==
    /\ pc = "loaded"
    /\ \E entity \in ReportEntityNames :
         WriteRow("create_risk_report", entity, create_risk_report(entity, TheGraph, db))

CallGenerateRiskReport ==
    /\ pc = "loaded"
    /\ \E entity \in ReportEntityNames :
         WriteRow("generate_risk_report", entity,
                  generate_risk_report_row(entity, TheGraph, db))

ReportNext ==
    \/ LoadGraph
    \/ CallCreateRiskReport
    \/ CallGenerateRiskReport

ReportSpec == ReportInit /\ [][ReportNext]_vars

(***************************************************************************)
(* C30.  The L, I and R columns of a report row show the likelihood, impact *)
(* and overall_risk of the LIR node that the graph links by HAS_RISK to the *)
(* last assessment, in get_risk_assessments order, that has such a link;    *)
(* when no assessment of the entity has one, or no entity has the name, the *)
(* three columns show the placeholder; and the row is written without an    *)
(* error.                                                                   *)
(***************************************************************************)
\* The assessments of the entities named name that have a HAS_RISK edge, as
\* hops <<entity id, position of the HAS_ASSESSMENT edge>>.
LinkedHops(name) ==
    {h \in AssessmentHops(name) : TargetsOf(AssessmentAt(h), "HAS_RISK") # <<>>}

LastHop(S) == CHOOSE h \in S : \A g \in S : g = h \/ LexLess(g, h)

LirOfHop(h) == PropsOf(TargetsOf(AssessmentAt(h), "HAS_RISK")[1])

\* The no-data text of each report function ("-" stands for its dash).
Placeholder(fn) == IF fn = "create_risk_report" THEN "N/A" ELSE "-"

ExpectedColumns(name, fn) ==
    IF LinkedHops(name) = {}
       THEN <<Placeholder(fn), Placeholder(fn), Placeholder(fn)>>
       ELSE LET lir == LirOfHop(LastHop(LinkedHops(name)))
            IN <<str_int(lir.likelihood), str_int(lir.impact), str_int(lir.overall_risk)>>

====
